---- MODULE Spec2Model ----
(***************************************************************************)
(* Model of the belvi CT log scanner (belvi_ct_scan): the per-log batcher  *)
(* (HistState, next_batch, merge_fetched), the STH updater, the batch      *)
(* fetcher and the supervisor loop of main.                                *)
(*                                                                         *)
(* Values of Option<T> and results that may panic are records with a tag   *)
(* field: NONE, Some(v), PANIC.                                            *)
(***************************************************************************)
EXTENDS Integers, FiniteSets, Sequences, TLC

VARIABLES
    log_states,       \* FetchState.log_states of the running process
    saved,            \* contents of state.json
    log_transient,    \* Ctx.log_transient
    checked_logs,     \* main: checked_logs
    tasks,            \* main: the futures of the current round and their results
    pc,               \* position of the process in main
    stored,           \* rows visible through the sqlite connection, per log
    committed,        \* rows of committed transactions, per log
    overflow_checks,  \* the build: TRUE when integer overflow panics (debug profile)
    largest_response, \* history: most entries a log returned in one response
                      \* to this process
    arg,              \* argument of the function under evaluation
    ret               \* its result

vars == <<log_states, saved, log_transient, checked_logs, tasks, pc, stored,
          committed, overflow_checks, largest_response, arg, ret>>

----------------------------------------------------------------------------
(* Program constants *)

MAX_PAGE_SIZE == 1000
FETCHES_FOR_SMALLER_PAGES == 10
MIN_HISTORY == 5000
\* u64::MAX, scaled to the largest integer TLC represents
U64_MAX == 2147483647

----------------------------------------------------------------------------
(* Bounds of the model *)

\* the two active logs of the log list
Logs == {"argon", "xenon"}
\* tree sizes a log may report in an STH: argon grows, shrinks and may be
\* empty, xenon is a frozen log of 500 entries
TreeSizes(l) == IF l = "argon" THEN {0, 1, 1600, 10000, 10500} ELSE {500}
\* timestamps a log may report in an STH: 1..MaxTimestamp for argon
MaxTimestamp == 2
Timestamps(l) == IF l = "argon" THEN 1..MaxTimestamp ELSE {1}
\* sizes of truncated get-entries responses
PartialSizes == {500}
\* the fetch counter of a log is followed up to this value
MaxFetches == 12

----------------------------------------------------------------------------
(* Option and panic values *)

NONE == [tag |-> "None"]
Some(v) == [tag |-> "Some", v |-> v]
PANIC == [tag |-> "Panic"]

Max(a, b) == IF a >= b THEN a ELSE b
Min(a, b) == IF a <= b THEN a ELSE b
saturating_sub(a, b) == IF a >= b THEN a - b ELSE 0
\* a - b of a release build (wrapping) when a < b
wrapping_sub(a, b) == IF a >= b THEN a - b ELSE U64_MAX - (b - a) + 1

----------------------------------------------------------------------------
(* HistState *)

NothingFetched == [tag |-> "NothingFetched"]
Fetching(r) == [tag |-> "Fetching", r |-> r]
FillingHistGap(hist_gap, fetching) ==
    [tag |-> "FillingHistGap", hist_gap |-> hist_gap, fetching |-> fetching]

\* merge_adjacent_ranges with the bounds of the "going forwards" result swapped
merge_adjacent_ranges_swapped(a, b, oc) ==
    IF a[1] = b[2] + 1
    THEN Some(<<a[1], b[2]>>)
    ELSE IF b[1] = 0 /\ oc
         THEN PANIC
         ELSE IF a[2] = wrapping_sub(b[1], 1)
              THEN Some(<<a[1], b[2]>>)
              ELSE NONE

\* merge_adjacent_ranges((a1, a2), (b1, b2)); oc: the build checks overflow
merge_adjacent_ranges(a, b, oc) ==
    IF a[1] = b[2] + 1
    THEN Some(<<b[1], a[2]>>)
    ELSE IF b[1] = 0 /\ oc
         THEN PANIC                \* b1 - 1: attempt to subtract with overflow
         ELSE IF a[2] = wrapping_sub(b[1], 1)
              THEN Some(<<a[1], b[2]>>)
              ELSE NONE

\* merge_fetched that keeps the two ranges apart once a gap is open
merge_fetched_keeping_gap(self, new_range, oc) ==
    IF self.tag = "NothingFetched"
    THEN Fetching(new_range)
    ELSE IF self.tag = "Fetching"
    THEN LET updated == merge_adjacent_ranges(self.r, new_range, oc)
         IN  IF updated.tag = "Panic" THEN PANIC
             ELSE IF updated.tag = "Some" THEN Fetching(updated.v)
             ELSE FillingHistGap(new_range, self.r)
    ELSE LET hist_gap == merge_adjacent_ranges(self.hist_gap, new_range, oc)
         IN  IF hist_gap.tag # "Some"
             THEN PANIC
             ELSE FillingHistGap(hist_gap.v, self.fetching)

merge_fetched(self, new_range, oc) ==
    IF self.tag = "NothingFetched"
    THEN Fetching(new_range)
    ELSE IF self.tag = "Fetching"
    THEN LET updated == merge_adjacent_ranges(self.r, new_range, oc)
         IN  IF updated.tag = "Panic" THEN PANIC
             ELSE IF updated.tag = "Some" THEN Fetching(updated.v)
             ELSE FillingHistGap(new_range, self.r)
    ELSE LET hist_gap == merge_adjacent_ranges(self.hist_gap, new_range, oc)
         IN  IF hist_gap.tag # "Some"
             THEN PANIC            \* overflow, or expect("non adjacent range ...")
             ELSE LET combined ==
                          merge_adjacent_ranges(hist_gap.v, self.fetching, oc)
                  IN  IF combined.tag = "Panic" THEN PANIC
                      ELSE IF combined.tag = "Some" THEN Fetching(combined.v)
                      ELSE FillingHistGap(hist_gap.v, self.fetching)

----------------------------------------------------------------------------
(* FetchState::next_batch *)

\* extend_range with the forward page starting at cur_end
extend_range_refetching_end(cur_start, cur_end, endpoint) ==
    IF cur_end = endpoint
    THEN LET desired_start == saturating_sub(cur_end, MIN_HISTORY)
         IN  IF desired_start < cur_start
             THEN Some(<<Max(saturating_sub(cur_start, MIN_HISTORY),
                             saturating_sub(cur_start, MAX_PAGE_SIZE)),
                         cur_start - 1>>)
             ELSE NONE
    ELSE IF cur_end < endpoint
         THEN Some(<<cur_end, Min(endpoint, cur_end + MAX_PAGE_SIZE)>>)
         ELSE PANIC

\* extend_range that stops the backfill at exactly MIN_HISTORY entries
extend_range_exact_history(cur_start, cur_end, endpoint) ==
    IF cur_end = endpoint
    THEN LET desired_start == saturating_sub(cur_end + 1, MIN_HISTORY)
         IN  IF desired_start < cur_start
             THEN Some(<<Max(saturating_sub(cur_start, MIN_HISTORY),
                             saturating_sub(cur_start, MAX_PAGE_SIZE)),
                         cur_start - 1>>)
             ELSE NONE
    ELSE IF cur_end < endpoint
         THEN Some(<<cur_end + 1, Min(endpoint, cur_end + MAX_PAGE_SIZE)>>)
         ELSE PANIC

\* extend_range whose backfill page is not capped by MAX_PAGE_SIZE
extend_range_uncapped_backfill(cur_start, cur_end, endpoint) ==
    IF cur_end = endpoint
    THEN LET desired_start == saturating_sub(cur_end, MIN_HISTORY)
         IN  IF desired_start < cur_start
             THEN Some(<<saturating_sub(cur_start, MIN_HISTORY), cur_start - 1>>)
             ELSE NONE
    ELSE IF cur_end < endpoint
         THEN Some(<<cur_end + 1, Min(endpoint, cur_end + MAX_PAGE_SIZE)>>)
         ELSE PANIC

\* extend_range that also backfills below index 0
extend_range_backfill_at_zero(cur_start, cur_end, endpoint) ==
    IF cur_end = endpoint
    THEN LET desired_start == saturating_sub(cur_end, MIN_HISTORY)
         IN  IF desired_start <= cur_start
             THEN Some(<<Max(saturating_sub(cur_start, MIN_HISTORY),
                             saturating_sub(cur_start, MAX_PAGE_SIZE)),
                         cur_start - 1>>)
             ELSE NONE
    ELSE IF cur_end < endpoint
         THEN Some(<<cur_end + 1, Min(endpoint, cur_end + MAX_PAGE_SIZE)>>)
         ELSE PANIC

\* extend_range whose forward page is not cut at the endpoint
extend_range_past_endpoint(cur_start, cur_end, endpoint) ==
    IF cur_end = endpoint
    THEN LET desired_start == saturating_sub(cur_end, MIN_HISTORY)
         IN  IF desired_start < cur_start
             THEN Some(<<Max(saturating_sub(cur_start, MIN_HISTORY),
                             saturating_sub(cur_start, MAX_PAGE_SIZE)),
                         cur_start - 1>>)
             ELSE NONE
    ELSE IF cur_end < endpoint
         THEN Some(<<cur_end + 1, cur_end + MAX_PAGE_SIZE>>)
         ELSE PANIC

extend_range(cur_start, cur_end, endpoint) ==
    IF cur_end = endpoint
    THEN LET desired_start == saturating_sub(cur_end, MIN_HISTORY)
         IN  IF desired_start < cur_start
             THEN Some(<<Max(saturating_sub(cur_start, MIN_HISTORY),
                             saturating_sub(cur_start, MAX_PAGE_SIZE)),
                         cur_start - 1>>)
             ELSE NONE
    ELSE IF cur_end < endpoint
         THEN Some(<<cur_end + 1, Min(endpoint, cur_end + MAX_PAGE_SIZE)>>)
         ELSE PANIC                \* "impossible, cur_end is past endpoint"

\* next_batch that sizes the first page with highest_page_size from the first
\* fetch on
next_batch_of_learned_page(transient, state, oc) ==
    LET page_size == transient.highest_page_size
        tree_size == saturating_sub(state.sth.tree_size, 1)
        f == state.fetched_to
    IN  CASE f.tag = "NothingFetched" ->
                Some(<<saturating_sub(tree_size, page_size - 1), tree_size>>)
          [] f.tag = "Fetching" -> extend_range(f.r[1], f.r[2], tree_size)
          [] f.tag = "FillingHistGap" ->
                extend_range(f.hist_gap[1], f.hist_gap[2],
                             wrapping_sub(f.fetching[1], 1))

\* next_batch that, while a gap is open, first extends the newer range
\* towards the STH
next_batch_of_forward_first(transient, state, oc) ==
    LET page_size == IF transient.fetches > FETCHES_FOR_SMALLER_PAGES
                     THEN transient.highest_page_size
                     ELSE MAX_PAGE_SIZE
        tree_size == saturating_sub(state.sth.tree_size, 1)
        f == state.fetched_to
    IN  CASE f.tag = "NothingFetched" ->
                Some(<<saturating_sub(tree_size, page_size - 1), tree_size>>)
          [] f.tag = "Fetching" -> extend_range(f.r[1], f.r[2], tree_size)
          [] f.tag = "FillingHistGap" ->
                IF f.fetching[2] < tree_size
                THEN extend_range(f.fetching[1], f.fetching[2], tree_size)
                ELSE extend_range(f.hist_gap[1], f.hist_gap[2],
                                  wrapping_sub(f.fetching[1], 1))

\* next_batch on the parts of Ctx and FetchState it reads
next_batch_of(transient, state, oc) ==
    LET page_size == IF transient.fetches > FETCHES_FOR_SMALLER_PAGES
                     THEN transient.highest_page_size
                     ELSE MAX_PAGE_SIZE
        tree_size == saturating_sub(state.sth.tree_size, 1)
        f == state.fetched_to
    IN  CASE f.tag = "NothingFetched" ->
                Some(<<saturating_sub(tree_size, page_size - 1), tree_size>>)
          [] f.tag = "Fetching" -> extend_range(f.r[1], f.r[2], tree_size)
          [] f.tag = "FillingHistGap" ->
                IF f.fetching[1] = 0 /\ oc
                THEN PANIC         \* fetching_start - 1 overflows
                ELSE extend_range(f.hist_gap[1], f.hist_gap[2],
                                  wrapping_sub(f.fetching[1], 1))

next_batch(id) ==
    IF log_states[id].tag = "None"
    THEN PANIC                     \* expect("next_batch called with bad id")
    ELSE next_batch_of(log_transient[id], log_states[id].v, overflow_checks)

----------------------------------------------------------------------------
(* Values of the state *)

LogSth(tree_size, timestamp) == [tree_size |-> tree_size, timestamp |-> timestamp]
LogFetchState(sth, fetched_to) == [sth |-> sth, fetched_to |-> fetched_to]
\* LogTransient::default
LogTransientDefault == [fetches |-> 0, highest_page_size |-> U64_MAX]

\* the STHs a log may answer get-sth with
Sths(l) == {LogSth(t, ts) : t \in TreeSizes(l), ts \in Timestamps(l)}

\* rows of one log as a set of maximal index intervals; the rows of a batch
\* are added with INSERT OR IGNORE
insert_rows(rows, r) ==
    LET touching == {i \in rows : i[1] <= r[2] + 1 /\ r[1] <= i[2] + 1}
        los == {i[1] : i \in touching} \cup {r[1]}
        his == {i[2] : i \in touching} \cup {r[2]}
    IN  (rows \ touching) \cup
        {<<CHOOSE x \in los : \A y \in los : x <= y,
           CHOOSE x \in his : \A y \in his : x >= y>>}

----------------------------------------------------------------------------
(* The process *)

\* FetchState::new_sync with no state.json, Ctx::from_env_sync on an empty
\* data directory, and main up to its first statement
Init ==
    /\ log_states = [l \in Logs |-> NONE]
    /\ saved = [l \in Logs |-> NONE]
    /\ log_transient = [l \in Logs |-> LogTransientDefault]
    /\ checked_logs = {}
    /\ tasks = [l \in Logs |-> "idle"]
    /\ pc = "update_sths"
    /\ stored = [l \in Logs |-> {}]
    /\ committed = [l \in Logs |-> {}]
    /\ overflow_checks \in BOOLEAN
    /\ largest_response = [l \in Logs |-> 0]
    /\ arg = NONE
    /\ ret = NONE

\* updated_state that starts the log over when its STH is replaced
updated_state_starting_over(old, new_sth) ==
    Some(LogFetchState(new_sth, NothingFetched))

\* the entry of a log after update_sths received new_sth for it
updated_state(old, new_sth) ==
    IF old.tag = "Some"
    THEN Some(LogFetchState(new_sth, old.v.fetched_to))
    ELSE Some(LogFetchState(new_sth, NothingFetched))

\* update_sths logs error!("log violated append-only ...") for this log
violated_append_only(old, new_sth) ==
    /\ old.tag = "Some"
    /\ \/ old.v.sth.tree_size > new_sth.tree_size
       \/ old.v.sth.timestamp > new_sth.timestamp

\* main: fetch_state.update_sths(&ctx).await; fetch_state.save(&ctx).await
\* with every get-sth answered
UpdateSths ==
    /\ pc = "update_sths"
    /\ \E new \in [Logs -> UNION {Sths(l) : l \in Logs}] :
          /\ \A l \in Logs : new[l] \in Sths(l)
          /\ log_states' = [l \in Logs |-> updated_state(log_states[l], new[l])]
          /\ saved' = log_states'
    /\ pc' = "loop"
    /\ UNCHANGED <<log_transient, checked_logs, tasks, stored, committed,
                 overflow_checks, largest_response, arg, ret>>

\* update_sths: expect("Failed to fetch log STH, bailing") on a failed get-sth
UpdateSthsFail ==
    /\ pc = "update_sths"
    /\ pc' = "panicked"
    /\ UNCHANGED <<log_states, saved, log_transient, checked_logs, tasks,
                 stored, committed, overflow_checks, largest_response, arg,
                 ret>>

\* main: the loop condition holds; BEGIN DEFERRED; one future per unchecked log
RoundBegin ==
    /\ pc = "loop"
    /\ Cardinality(checked_logs) < Cardinality(Logs)
    /\ tasks' = [l \in Logs |-> IF l \in checked_logs THEN "idle" ELSE "pending"]
    /\ pc' = "round"
    /\ UNCHANGED <<log_states, saved, log_transient, checked_logs, stored,
                 committed, overflow_checks, largest_response, arg, ret>>

\* main: the loop condition fails; Ok(())
LoopExit ==
    /\ pc = "loop"
    /\ Cardinality(checked_logs) >= Cardinality(Logs)
    /\ pc' = "exited"
    /\ UNCHANGED <<log_states, saved, log_transient, checked_logs, tasks,
                 stored, committed, overflow_checks, largest_response, arg,
                 ret>>

\* fetch_next_batch, "adjust log_states": LogFetchState.fetched_to is a HistState
\* (main.rs), so the fetched range is merged into it by HistState::merge_fetched
update_fetched_to(fetched, new_range, oc) == merge_fetched(fetched, new_range, oc)

\* the numbers of entries of a get-entries answer that fetch_next_batch accepts
AcceptedSizes(len) == {len} \cup {p \in PartialSizes : p < len}

\* fetch_next_batch: next_batch returns None
BatchNothing(l) ==
    /\ pc = "round" /\ tasks[l] = "pending"
    /\ next_batch(l) = NONE
    /\ tasks' = [tasks EXCEPT ![l] = "none"]
    /\ UNCHANGED <<log_states, saved, log_transient, checked_logs, pc,
                 stored, committed, overflow_checks, largest_response, arg,
                 ret>>

\* fetch_next_batch: next_batch panics
BatchPanic(l) ==
    /\ pc = "round" /\ tasks[l] = "pending"
    /\ next_batch(l) = PANIC
    /\ pc' = "panicked"
    /\ UNCHANGED <<log_states, saved, log_transient, checked_logs, tasks,
                 stored, committed, overflow_checks, largest_response, arg,
                 ret>>

\* FetchFail that counts the failed request as a fetch of the log
FetchFail_counting(l) ==
    /\ pc = "round" /\ tasks[l] = "pending"
    /\ next_batch(l).tag = "Some"
    /\ tasks' = [tasks EXCEPT ![l] = "none"]
    /\ log_transient' = [log_transient EXCEPT ![l].fetches = Min(@ + 1, MaxFetches)]
    /\ UNCHANGED <<log_states, saved, checked_logs, pc, stored, committed,
                 overflow_checks, largest_response, arg, ret>>

\* fetch_next_batch: fetch_entries returns Err
FetchFail(l) ==
    /\ pc = "round" /\ tasks[l] = "pending"
    /\ next_batch(l).tag = "Some"
    /\ tasks' = [tasks EXCEPT ![l] = "none"]
    /\ UNCHANGED <<log_states, saved, log_transient, checked_logs, pc,
                 stored, committed, overflow_checks, largest_response, arg,
                 ret>>

\* fetch_next_batch: the answer has k entries, k = 0 or k > end - start + 1;
\* assert!(!entries.is_empty()) or assert!(new_end <= end) fails
FetchBadLength(l) ==
    /\ pc = "round" /\ tasks[l] = "pending"
    /\ next_batch(l).tag = "Some"
    /\ LET start == next_batch(l).v[1]
           end == next_batch(l).v[2]
       IN  \E k \in {0, end - start + 2} :
             /\ k = 0 \/ start + k - 1 > end
             /\ pc' = "panicked"
    /\ UNCHANGED <<log_states, saved, log_transient, checked_logs, tasks,
                 stored, committed, overflow_checks, largest_response, arg,
                 ret>>

\* fetch_next_batch: the answer has k entries, 1 <= k <= end - start + 1
FetchOk(l) ==
    /\ pc = "round" /\ tasks[l] = "pending"
    /\ next_batch(l).tag = "Some"
    /\ log_transient[l].fetches < MaxFetches
    /\ LET start == next_batch(l).v[1]
           end == next_batch(l).v[2]
       IN  \E k \in AcceptedSizes(end - start + 1) :
             LET new_end == start + k - 1
                 state == log_states[l].v
                 merged == update_fetched_to(state.fetched_to, <<start, new_end>>,
                                            overflow_checks)
             IN  /\ log_transient' = [log_transient EXCEPT ![l] =
                        [fetches |-> @.fetches + 1,
                         highest_page_size |-> Max(@.highest_page_size, k)]]
                 /\ largest_response' = [largest_response EXCEPT
                                             ![l] = Max(@, k)]
                 /\ stored' = [stored EXCEPT
                                   ![l] = insert_rows(@, <<start, new_end>>)]
                 /\ IF start > end \/ merged = PANIC
                    THEN /\ pc' = "panicked"
                         /\ UNCHANGED <<log_states, tasks>>
                    ELSE /\ log_states' = [log_states EXCEPT ![l] =
                                Some(LogFetchState(state.sth, merged))]
                         /\ tasks' = [tasks EXCEPT ![l] = "some"]
                         /\ pc' = pc
    /\ UNCHANGED <<saved, checked_logs, committed, overflow_checks, arg, ret>>

FetchNextBatch(l) ==
    \/ BatchNothing(l)
    \/ BatchPanic(l)
    \/ FetchFail(l)
    \/ FetchBadLength(l)
    \/ FetchOk(l)

\* main: state.json is written before the rows of the round are committed
RoundEnd_saving_first ==
    /\ pc = "round"
    /\ \A l \in Logs : tasks[l] # "pending"
    /\ checked_logs' = checked_logs \cup {l \in Logs : tasks[l] = "none"}
    /\ saved' = log_states
    /\ pc' = "committed"
    /\ UNCHANGED <<log_states, log_transient, tasks, stored, committed,
                 overflow_checks, largest_response, arg, ret>>

\* main: all futures of the round are joined, the logs that returned None
\* are added to checked_logs, COMMIT
RoundEnd ==
    /\ pc = "round"
    /\ \A l \in Logs : tasks[l] # "pending"
    /\ checked_logs' = checked_logs \cup {l \in Logs : tasks[l] = "none"}
    /\ committed' = stored
    /\ pc' = "committed"
    /\ UNCHANGED <<log_states, saved, log_transient, tasks, stored,
                 overflow_checks, largest_response, arg, ret>>

\* main: fetch_state.save after COMMIT; the round is over
SaveState ==
    /\ pc = "committed"
    /\ saved' = log_states
    /\ tasks' = [l \in Logs |-> "idle"]
    /\ pc' = "loop"
    /\ UNCHANGED <<log_states, log_transient, checked_logs, stored, committed,
                 overflow_checks, largest_response, arg, ret>>

\* the process is killed between COMMIT and the write of state.json; the
\* kill is followed in the rounds in which only logs of a fixed size have
\* rows
Crash ==
    /\ pc = "committed"
    /\ \A l \in Logs : Cardinality(TreeSizes(l)) > 1 => stored[l] = {}
    /\ pc' = "panicked"
    /\ UNCHANGED <<log_states, saved, log_transient, checked_logs, tasks,
                 stored, committed, overflow_checks, largest_response, arg,
                 ret>>

\* the program is started again on the same data directory: the open
\* transaction of the previous process is gone, state.json is read
Restart ==
    /\ pc \in {"exited", "panicked"}
    /\ log_states' = saved
    /\ log_transient' = [l \in Logs |-> LogTransientDefault]
    /\ largest_response' = [l \in Logs |-> 0]
    /\ checked_logs' = {}
    /\ tasks' = [l \in Logs |-> "idle"]
    /\ stored' = committed
    /\ pc' = "update_sths"
    /\ UNCHANGED <<saved, committed, overflow_checks, arg, ret>>

Next ==
    \/ UpdateSths
    \/ UpdateSthsFail
    \/ RoundBegin
    \/ LoopExit
    \/ \E l \in Logs : FetchNextBatch(l)
    \/ RoundEnd
    \/ SaveState
    \/ Crash
    \/ Restart

Spec == Init /\ [][Next]_vars

----------------------------------------------------------------------------
(* Index sets of the fetched state *)

\* the ranges a HistState holds
Ranges(h) ==
    IF h.tag = "NothingFetched" THEN {}
    ELSE IF h.tag = "Fetching" THEN {h.r}
    ELSE {h.hist_gap, h.fetching}

\* the maximal intervals of the union of a set of inclusive ranges: two sets
\* of ranges cover the same indices iff their Norm is the same
RECURSIVE Norm(_)
Norm(S) ==
    LET T == {r \in S : r[1] <= r[2]}
    IN  IF \E a, b \in T : a # b /\ a[1] <= b[2] + 1 /\ b[1] <= a[2] + 1
        THEN LET a == CHOOSE x \in T :
                         \E y \in T : x # y /\ x[1] <= y[2] + 1 /\ y[1] <= x[2] + 1
                 b == CHOOSE y \in T :
                         a # y /\ a[1] <= y[2] + 1 /\ y[1] <= a[2] + 1
             IN  Norm((T \ {a, b}) \cup {<<Min(a[1], b[1]), Max(a[2], b[2])>>})
        ELSE T

\* the response sizes the claims are evaluated on for a request of len entries
SampleSizes(len) == ({1, len - 1} \cap 1..len) \cup AcceptedSizes(len)

Known(l) == log_states[l].tag = "Some"
fetched_to(l) == log_states[l].v.fetched_to
sth(l) == log_states[l].v.sth

----------------------------------------------------------------------------
(* Claims *)

\* C1: for every reachable HistState s and every range r = [start, start+k-1]
\* cut from next_batch(s) = (start, end) with 1 <= k <= end-start+1, the
\* indices of merge_fetched(s, r), where it returns, are exactly those of s
\* united with r.
C1_MergeIsUnion ==
    \A l \in Logs : Known(l) /\ next_batch(l).tag = "Some" =>
        LET start == next_batch(l).v[1]
            end == next_batch(l).v[2]
        IN  \A k \in SampleSizes(end - start + 1) : \A oc \in BOOLEAN :
              LET r == <<start, start + k - 1>>
                  m == merge_fetched(fetched_to(l), r, oc)
              IN  m # PANIC =>
                    Norm(Ranges(m)) = Norm(Ranges(fetched_to(l)) \cup {r})

\* a truncated backfill has been merged and the gap is still to be filled
C1_Witness ==
    \E l \in Logs : /\ Known(l)
                    /\ fetched_to(l).tag = "FillingHistGap"
                    /\ next_batch(l).tag = "Some"
                    /\ tasks[l] = "some"

\* C2: in every reachable state other than NothingFetched in which next_batch
\* returns Some((start, end)), the range holds no index recorded in
\* fetched_to and is adjacent to a stored range.
C2_BatchAdjacentDisjoint ==
    \A l \in Logs :
        (/\ Known(l)
         /\ fetched_to(l).tag # "NothingFetched"
         /\ next_batch(l).tag = "Some") =>
        LET start == next_batch(l).v[1]
            end == next_batch(l).v[2]
        IN  /\ \A r \in Ranges(fetched_to(l)) : end < r[1] \/ start > r[2]
            /\ \E r \in Ranges(fetched_to(l)) :
                  start = r[2] + 1 \/ end = r[1] - 1

\* a log with one fetched range is behind its STH: a forward batch is due
C2_Witness ==
    \E l \in Logs : /\ Known(l)
                    /\ fetched_to(l).tag = "Fetching"
                    /\ fetched_to(l).r[2] < sth(l).tree_size - 1
                    /\ next_batch(l).tag = "Some"

\* C3: after any sequence of STH updates and completed fetches, the highest
\* index recorded in a log's fetched_to is <= the most recently stored
\* sth.tree_size - 1 of that log.
C3_FetchedWithinSth ==
    \A l \in Logs : Known(l) =>
        \A r \in Ranges(fetched_to(l)) : r[2] <= sth(l).tree_size - 1

\* C4: when update_sths observes an STH whose tree_size or timestamp is lower
\* than the recorded one, the new STH is stored, the process does not crash,
\* and the next_batch calls for that log return a range or None and do not
\* panic.
C4_LowerSthTolerated ==
    [][\A l \in Logs :
          (/\ pc = "update_sths"
           /\ pc' = "loop"
           /\ violated_append_only(log_states[l], sth(l)')) =>
          next_batch(l)' # PANIC]_vars

\* C5: for every request (start, end) of next_batch, a response with k
\* entries, 1 <= k <= end-start+1, is merged into the fetched state without
\* a panic or failed assertion.
C5_AcceptedResponseMerges ==
    \A l \in Logs : Known(l) /\ next_batch(l).tag = "Some" =>
        LET start == next_batch(l).v[1]
            end == next_batch(l).v[2]
        IN  \A k \in SampleSizes(end - start + 1) :
              /\ start <= end
              /\ merge_fetched(fetched_to(l), <<start, start + k - 1>>,
                               overflow_checks) # PANIC

\* C6: when a log answers get-entries with zero entries or with more entries
\* than requested, only that batch is abandoned: no record is stored,
\* fetched_to is unchanged and the process keeps running.
C6_BadLengthAbandonsBatch ==
    [][\A l \in Logs :
          FetchBadLength(l) =>
            /\ pc' = "round"
            /\ stored' = stored
            /\ log_states' = log_states]_vars

\* C7: when fetch_entries fails, fetch_next_batch returns None and leaves the
\* log's sth, fetched_to, LogTransient counters and all stored records
\* unchanged, so that next_batch returns the same range for that log.
C7_FailedFetchChangesNothing ==
    [][\A l \in Logs :
          (/\ tasks[l] = "pending"
           /\ next_batch(l).tag = "Some"
           /\ pc' = "round"
           /\ tasks'[l] # "pending"
           /\ tasks'[l] # "some") =>
            /\ tasks'[l] = "none"
            /\ log_states' = log_states
            /\ log_transient' = log_transient
            /\ stored' = stored /\ committed' = committed /\ saved' = saved
            /\ next_batch(l)' = next_batch(l)]_vars

\* a fetch has failed: the task of a log that has a range to fetch returned None
C7_Witness ==
    \E l \in Logs : /\ pc = "round"
                    /\ tasks[l] = "none"
                    /\ Known(l) /\ next_batch(l).tag = "Some"

\* C8: a log whose fetch failed in a round is excluded only for the remainder
\* of that round: a later round issues a fetch for it again (the same range).
C8_FailedLogRetriedNextRound ==
    [][pc = "loop" /\ pc' = "round" =>
          \A l \in Logs :
              Known(l) /\ next_batch(l).tag = "Some" => tasks'[l] = "pending"]_vars

\* C9 as claimed: from NothingFetched with tree_size 10000 and complete
\* responses the batches are (9000, 9999), (8000, 8999), (7000, 7999), ... one
\* page at a time, and in Fetching(5000, 9999) next_batch returns None.
C9_ColdStartAsClaimed ==
    \A l \in Logs : Known(l) /\ sth(l).tree_size = 10000 =>
        /\ fetched_to(l) = NothingFetched =>
              next_batch(l) = Some(<<9000, 9999>>)
        /\ \A i \in 1..4 :
              fetched_to(l) = Fetching(<<10000 - 1000 * i, 9999>>) =>
                next_batch(l) = Some(<<9000 - 1000 * i, 9999 - 1000 * i>>)
        /\ fetched_to(l) = Fetching(<<5000, 9999>>) => next_batch(l) = NONE

\* C9 (amended): from NothingFetched with tree_size 10000 and complete
\* responses the batches are (9000, 9999), (8000, 8999), ..., (5000, 5999) and
\* then (4000, 4999); next_batch returns None in Fetching(4000, 9999).
C9_ColdStartScenario ==
    \A l \in Logs : Known(l) /\ sth(l).tree_size = 10000 =>
        /\ fetched_to(l) = NothingFetched =>
              next_batch(l) = Some(<<9000, 9999>>)
        /\ \A i \in 1..5 :
              fetched_to(l) = Fetching(<<10000 - 1000 * i, 9999>>) =>
                next_batch(l) = Some(<<9000 - 1000 * i, 9999 - 1000 * i>>)
        /\ fetched_to(l) = Fetching(<<4000, 9999>>) => next_batch(l) = NONE

\* the backfill of the cold-started log of 10000 entries has come to its end
C9_Witness ==
    \E l \in Logs : /\ Known(l)
                    /\ sth(l).tree_size = 10000
                    /\ fetched_to(l) = Fetching(<<4000, 9999>>)
                    /\ log_transient[l].fetches = 6

\* C10 as claimed: in Fetching(lo, hi) with hi = sth.tree_size - 1, next_batch
\* returns None when hi - lo >= MIN_HISTORY and otherwise the range
\* (max(lo - MIN_HISTORY, lo - MAX_PAGE_SIZE), lo - 1).
C10_BackfillAsClaimed ==
    \A l \in Logs :
        (/\ Known(l)
         /\ fetched_to(l).tag = "Fetching"
         /\ fetched_to(l).r[2] = sth(l).tree_size - 1) =>
        LET lo == fetched_to(l).r[1]
            hi == fetched_to(l).r[2]
        IN  /\ hi - lo >= MIN_HISTORY => next_batch(l) = NONE
            /\ hi - lo < MIN_HISTORY =>
                  next_batch(l) =
                    Some(<<Max(lo - MIN_HISTORY, lo - MAX_PAGE_SIZE), lo - 1>>)

\* C10 (amended): in Fetching(lo, hi) with hi = sth.tree_size - 1, next_batch
\* returns None when hi - lo >= MIN_HISTORY or lo = 0, and otherwise the range
\* (max(lo - MAX_PAGE_SIZE, 0), lo - 1): the subtractions saturate at 0.
C10_BackfillSaturating ==
    \A l \in Logs :
        (/\ Known(l)
         /\ fetched_to(l).tag = "Fetching"
         /\ fetched_to(l).r[2] = sth(l).tree_size - 1) =>
        LET lo == fetched_to(l).r[1]
            hi == fetched_to(l).r[2]
        IN  /\ hi - lo >= MIN_HISTORY \/ lo = 0 => next_batch(l) = NONE
            /\ hi - lo < MIN_HISTORY /\ lo > 0 =>
                  next_batch(l) = Some(<<Max(lo - MAX_PAGE_SIZE, 0), lo - 1>>)

\* a caught-up log holds less than a page below its range: the backfill
\* range is cut at index 0
C10_Witness ==
    \E l \in Logs : /\ Known(l)
                    /\ fetched_to(l).tag = "Fetching"
                    /\ fetched_to(l).r[2] = sth(l).tree_size - 1
                    /\ fetched_to(l).r[1] > 0
                    /\ fetched_to(l).r[1] < MAX_PAGE_SIZE
                    /\ next_batch(l).tag = "Some"

\* the page size next_batch computes for a log
page_size(l) ==
    IF log_transient[l].fetches > FETCHES_FOR_SMALLER_PAGES
    THEN log_transient[l].highest_page_size
    ELSE MAX_PAGE_SIZE

\* C11: from NothingFetched, next_batch returns
\* (max(0, top - (page_size - 1)), top) with top = sth.tree_size - 1; for
\* 1 <= tree_size <= page_size this is (0, tree_size - 1), and after that
\* batch is fetched in full the state is Fetching(0, tree_size - 1) and
\* next_batch returns None.
C11_InitialBatch ==
    \A l \in Logs : Known(l) /\ fetched_to(l) = NothingFetched =>
        LET top == sth(l).tree_size - 1
            first == <<Max(0, top - (page_size(l) - 1)), top>>
            after == merge_fetched(NothingFetched, first, overflow_checks)
        IN  /\ next_batch(l) = Some(first)
            /\ (1 <= sth(l).tree_size /\ sth(l).tree_size <= page_size(l)) =>
                  /\ first = <<0, sth(l).tree_size - 1>>
                  /\ after = Fetching(<<0, sth(l).tree_size - 1>>)
                  /\ next_batch_of(
                        [log_transient[l] EXCEPT !.fetches = @ + 1],
                        LogFetchState(sth(l), after), overflow_checks) = NONE

\* C12: in Fetching(lo, hi) with hi below top = sth.tree_size - 1, next_batch
\* returns (hi + 1, min(top, hi + MAX_PAGE_SIZE)); Fetching(5000, 9999) with
\* an STH of tree_size 10500 yields (10000, 10499).
C12_ForwardBatch ==
    \A l \in Logs :
        (/\ Known(l)
         /\ fetched_to(l).tag = "Fetching"
         /\ fetched_to(l).r[2] < sth(l).tree_size - 1) =>
        LET hi == fetched_to(l).r[2]
            top == sth(l).tree_size - 1
        IN  /\ next_batch(l) = Some(<<hi + 1, Min(top, hi + MAX_PAGE_SIZE)>>)
            /\ (fetched_to(l).r = <<5000, 9999>> /\ sth(l).tree_size = 10500) =>
                  next_batch(l) = Some(<<10000, 10499>>)

\* the log of Fetching(5000, 9999) has advanced to 10500 entries
C12_Witness ==
    \E l \in Logs : /\ Known(l)
                    /\ fetched_to(l) = Fetching(<<5000, 9999>>)
                    /\ sth(l).tree_size = 10500
                    /\ pc = "round"

\* the highest index a HistState holds
highest_fetched(h) == IF h.tag = "Fetching" THEN h.r[2] ELSE h.fetching[2]

\* C13 as claimed: in every reachable Fetching or FillingHistGap state whose
\* highest fetched index is below sth.tree_size - 1, next_batch returns a
\* range above the highest fetched index; a range below fetched data is
\* returned only when the log is caught up to its STH.
C13_ForwardFirstAsClaimed ==
    \A l \in Logs :
        (/\ Known(l)
         /\ fetched_to(l).tag # "NothingFetched"
         /\ next_batch(l).tag = "Some") =>
        LET high == highest_fetched(fetched_to(l))
            start == next_batch(l).v[1]
        IN  /\ high < sth(l).tree_size - 1 => start > high
            /\ start < high => high = sth(l).tree_size - 1

\* C13 (amended): in every reachable Fetching state whose highest fetched
\* index is below sth.tree_size - 1, next_batch returns a range above it, and a
\* range below the fetched range only when the log is caught up; in
\* FillingHistGap next_batch returns the range that starts right above
\* hist_gap and ends below the newer range, also while the log is behind its
\* STH.
C13_ForwardFirstInFetching ==
    \A l \in Logs :
        (/\ Known(l)
         /\ fetched_to(l).tag # "NothingFetched"
         /\ next_batch(l).tag = "Some") =>
        LET f == fetched_to(l)
            start == next_batch(l).v[1]
            end == next_batch(l).v[2]
        IN  /\ f.tag = "Fetching" =>
                  /\ f.r[2] < sth(l).tree_size - 1 => start > f.r[2]
                  /\ start < f.r[1] => f.r[2] = sth(l).tree_size - 1
            /\ f.tag = "FillingHistGap" =>
                  /\ start = f.hist_gap[2] + 1
                  /\ end < f.fetching[1]

\* a log with an open gap is behind its STH
C13_Witness ==
    \E l \in Logs : /\ Known(l)
                    /\ fetched_to(l).tag = "FillingHistGap"
                    /\ fetched_to(l).fetching[2] < sth(l).tree_size - 1
                    /\ next_batch(l).tag = "Some"

\* C16: in every reachable FillingHistGap{hist_gap: (a, b), fetching: (c, d)},
\* b < c, so the two stored ranges never overlap; and a merge that makes
\* hist_gap adjacent to fetching collapses the state to a single Fetching.
C16_GapRangesDisjoint ==
    \A l \in Logs : Known(l) /\ fetched_to(l).tag = "FillingHistGap" =>
        LET f == fetched_to(l)
        IN  /\ f.hist_gap[1] <= f.hist_gap[2]
            /\ f.hist_gap[2] + 1 < f.fetching[1]
            /\ f.fetching[1] <= f.fetching[2]
            /\ next_batch(l).tag = "Some" =>
                  \A k \in SampleSizes(next_batch(l).v[2] - next_batch(l).v[1] + 1) :
                      LET start == next_batch(l).v[1]
                          new_end == start + k - 1
                          merged == merge_fetched(f, <<start, new_end>>,
                                                  overflow_checks)
                      IN  IF new_end + 1 = f.fetching[1]
                          THEN merged = Fetching(<<f.hist_gap[1], f.fetching[2]>>)
                          ELSE merged = FillingHistGap(<<f.hist_gap[1], new_end>>,
                                                       f.fetching)

\* a gap has just been closed: the batch fetched in this round ended right
\* below the newer range
C16_Witness ==
    \E l \in Logs :
        /\ Known(l)
        /\ saved[l].tag = "Some"
        /\ saved[l].v.fetched_to.tag = "FillingHistGap"
        /\ tasks[l] = "some"
        /\ fetched_to(l) = Fetching(<<saved[l].v.fetched_to.hist_gap[1],
                                      saved[l].v.fetched_to.fetching[2]>>)

\* C14: once a log has had more than FETCHES_FOR_SMALLER_PAGES successful
\* fetches in this process, every range next_batch returns for it spans at
\* most highest_page_size indices, and highest_page_size is the largest
\* number of entries the log returned to this process in one response.
C14_LearnedPageSize ==
    \A l \in Logs :
        (/\ Known(l)
         /\ log_transient[l].fetches > FETCHES_FOR_SMALLER_PAGES
         /\ next_batch(l).tag = "Some") =>
            next_batch(l).v[2] - next_batch(l).v[1] + 1 <= largest_response[l]

-----------------------------------------------------------------------------
\* Functions evaluated on their own: arg holds the input, ret the result.

\* the state of the scanner: not started
main_vars == <<log_states, saved, log_transient, checked_logs, tasks, pc,
               stored, committed, largest_response>>

NotStarted ==
    /\ log_states = [l \in Logs |-> NONE]
    /\ saved = [l \in Logs |-> NONE]
    /\ log_transient = [l \in Logs |-> LogTransientDefault]
    /\ checked_logs = {}
    /\ tasks = [l \in Logs |-> "idle"]
    /\ pc = "update_sths"
    /\ stored = [l \in Logs |-> {}]
    /\ committed = [l \in Logs |-> {}]
    /\ largest_response = [l \in Logs |-> 0]

\* HistState::merge_fetched on Fetching(cur) and a well-formed range
MergePoints == {0, 5, 9, 10, 20, 21, 30, 40, 50}
WellFormedRanges == {r \in MergePoints \X MergePoints : r[1] <= r[2]}

InitMerge ==
    /\ NotStarted
    /\ overflow_checks \in BOOLEAN
    /\ arg \in WellFormedRanges \X WellFormedRanges
    /\ ret = NONE

CallMerge ==
    /\ ret = NONE
    /\ ret' = merge_fetched(Fetching(arg[1]), arg[2], overflow_checks)
    /\ UNCHANGED <<main_vars, overflow_checks, arg>>

SpecMerge == InitMerge /\ [][CallMerge]_vars

\* C15: for every Fetching(cur) and every well-formed r (lo <= hi, lo = 0
\* included) merge_fetched returns Fetching(union) when r touches cur at
\* either end and FillingHistGap{fetching: cur, hist_gap: r} otherwise;
\* Fetching((10, 20)) merged with (21, 30) is Fetching((10, 30)), with (5, 9)
\* Fetching((5, 20)), with (40, 50) FillingHistGap{fetching: (10, 20),
\* hist_gap: (40, 50)}.
C15_MergeIntoFetching ==
    ret # NONE =>
        LET cur == arg[1]
            r == arg[2]
        IN  /\ IF r[1] = cur[2] + 1
               THEN ret = Fetching(<<cur[1], r[2]>>)
               ELSE IF r[2] + 1 = cur[1]
                    THEN ret = Fetching(<<r[1], cur[2]>>)
                    ELSE ret = FillingHistGap(r, cur)
            /\ (cur = <<10, 20>> /\ r = <<21, 30>>) => ret = Fetching(<<10, 30>>)
            /\ (cur = <<10, 20>> /\ r = <<5, 9>>) => ret = Fetching(<<5, 20>>)
            /\ (cur = <<10, 20>> /\ r = <<40, 50>>) =>
                  ret = FillingHistGap(<<40, 50>>, <<10, 20>>)

-----------------------------------------------------------------------------
\* log_data.rs: parsing the leaf_input of a get-entries item

Ok(v) == [tag |-> "Ok", v |-> v]
Err(e) == [tag |-> "Err", e |-> e]

\* v[a..=b] and v[a..] of a Rust slice (indices from 0) on a sequence
slice(v, a, b) == SubSeq(v, a + 1, b + 1)
slice_from(v, a) == SubSeq(v, a + 1, Len(v))

RECURSIVE from_be_bytes(_)
from_be_bytes(b) ==
    IF b = <<>> THEN 0
    ELSE from_be_bytes(SubSeq(b, 1, Len(b) - 1)) * 256 + b[Len(b)]

X509(cert) == [tag |-> "X509", cert |-> cert]
Precert(issuer_key_hash, tbs_certificate) ==
    [tag |-> "Precert", issuer_key_hash |-> issuer_key_hash,
     tbs_certificate |-> tbs_certificate]

\* TimestampedEntry::parse with the TBS certificate of a precert starting at
\* byte 46
TimestampedEntry_parse_skipping_four(v) ==
    IF Len(v) <= 11
    THEN Err("TimestampedEntryTooShort")
    ELSE LET timestamp == from_be_bytes(slice(v, 0, 7))
             entry_type == from_be_bytes(slice(v, 8, 9))
             entry(log_entry) == Ok([timestamp |-> timestamp,
                                     log_entry |-> log_entry,
                                     extensions |-> <<>>])
         IN  IF entry_type = 0
             THEN IF 13 > Len(v) THEN PANIC
                  ELSE entry(X509(slice_from(v, 13)))
             ELSE IF entry_type = 1
             THEN IF Len(v) <= 43
                  THEN Err("TimestampedEntryTooShort")
                  ELSE IF v[Len(v)] # 0 THEN PANIC
                  ELSE IF v[Len(v) - 1] # 0 THEN PANIC
                  ELSE IF 46 > Len(v) THEN PANIC
                  ELSE entry(Precert(slice(v, 10, 41), slice_from(v, 46)))
             ELSE Err("LogEntryUnknownEntryType")

TimestampedEntry_parse(v) ==
    IF Len(v) <= 11
    THEN Err("TimestampedEntryTooShort")
    ELSE LET timestamp == from_be_bytes(slice(v, 0, 7))
             entry_type == from_be_bytes(slice(v, 8, 9))
             entry(log_entry) == Ok([timestamp |-> timestamp,
                                     log_entry |-> log_entry,
                                     extensions |-> <<>>])
         IN  IF entry_type = 0
             THEN IF 13 > Len(v) THEN PANIC
                  ELSE entry(X509(slice_from(v, 13)))
             ELSE IF entry_type = 1
             THEN IF Len(v) <= 43
                  THEN Err("TimestampedEntryTooShort")
                  ELSE IF v[Len(v)] # 0 THEN PANIC
                  ELSE IF v[Len(v) - 1] # 0 THEN PANIC
                  ELSE IF 45 > Len(v) THEN PANIC
                  ELSE entry(Precert(slice(v, 10, 41), slice_from(v, 45)))
             ELSE Err("LogEntryUnknownEntryType")

MerkleTreeLeaf_parse(v) ==
    IF Len(v) <= 3
    THEN Err("MerkleTreeLeafTooShort")
    ELSE LET version == v[1]
             leaf_type == v[2]
             timestamped_entry == TimestampedEntry_parse(slice_from(v, 2))
         IN  IF leaf_type # 0
             THEN Err("MerkleTreeLeafUnknownLeafType")
             ELSE IF timestamped_entry.tag # "Ok"
                  THEN timestamped_entry
                  ELSE Ok([version |-> version,
                           timestamped_entry |-> timestamped_entry.v])

\* byte strings given to the parsers: len bytes laid out as a leaf (version,
\* leaf type, timestamp, entry type, body) with the chosen leaf type, entry
\* type and last two bytes
MaxLeafLen == 48
LeafBytes(len, leaf_type, entry_type, last2) ==
    [i \in 1..len |->
        IF i = 2 THEN leaf_type
        ELSE IF i = 10 THEN 1
        ELSE IF i = 12 THEN entry_type
        ELSE IF i > 12 /\ i = len - 1 THEN last2[1]
        ELSE IF i > 12 /\ i = len THEN last2[2]
        ELSE IF i > 12 THEN 7
        ELSE 0]
EntryBytes(len, entry_type, last2) ==
    slice_from(LeafBytes(len + 2, 0, entry_type, last2), 2)

InitParse ==
    /\ NotStarted
    /\ overflow_checks \in BOOLEAN
    /\ \E len \in 0..MaxLeafLen, leaf_type \in {0, 1}, entry_type \in {0, 1, 2},
          last2 \in {0, 1} \X {0, 1} :
          arg \in {[fn |-> "MerkleTreeLeaf",
                    v |-> LeafBytes(len, leaf_type, entry_type, last2)],
                   [fn |-> "TimestampedEntry",
                    v |-> EntryBytes(len, entry_type, last2)]}
    /\ ret = NONE

CallMerkleTreeLeafParse ==
    /\ ret = NONE
    /\ arg.fn = "MerkleTreeLeaf"
    /\ ret' = MerkleTreeLeaf_parse(arg.v)
    /\ UNCHANGED <<main_vars, overflow_checks, arg>>

CallTimestampedEntryParse ==
    /\ ret = NONE
    /\ arg.fn = "TimestampedEntry"
    /\ ret' = TimestampedEntry_parse(arg.v)
    /\ UNCHANGED <<main_vars, overflow_checks, arg>>

NextParse == CallMerkleTreeLeafParse \/ CallTimestampedEntryParse

SpecParse == InitParse /\ [][NextParse]_vars

\* C17: for every input byte string MerkleTreeLeaf::parse and
\* TimestampedEntry::parse return a parsed value or a named CTParseError; no
\* input makes them panic through an out-of-range slice or a failed assertion.
C17_ParseNeverPanics ==
    ret # NONE => ret.tag \in {"Ok", "Err"}

-----------------------------------------------------------------------------
\* belvi_cert: the domains of a TBS certificate

\* a BER value: tag (class and number), primitive or constructed, and its
\* content; as_string is the string the content bytes decode to when they
\* are themselves the BER encoding of a UTF8String or IA5String, else NONE
Ber(class, number, constructed, bytes, as_string) ==
    [class |-> class, number |-> number, constructed |-> constructed,
     bytes |-> bytes, as_string |-> as_string]

ber_to_string(value) ==
    IF value.as_string.tag = "Some" THEN value.as_string.v ELSE value.bytes

\* take_tagged_ber on a source whose next values are rest: Malformed at the
\* end of the content and for constructed values
take_tagged_ber(rest) ==
    IF rest = <<>> THEN Err("Malformed")
    ELSE LET value == Head(rest)
         IN  IF value.constructed THEN Err("Malformed")
             ELSE IF value.class = "context" /\ value.number \in {1, 2, 6}
                  THEN Ok(ber_to_string(value))
                  ELSE Err("Unimplemented")

\* the commonName values of the attributes, flattened over the RDNs
RECURSIVE common_names(_)
common_names(attrs) ==
    IF attrs = <<>> THEN <<>>
    ELSE LET attr == Head(attrs)
             next_dom == take_tagged_ber(<<attr.value>>)
         IN  (IF attr.typ = "commonName" /\ next_dom.tag = "Ok"
              THEN <<next_dom.v>> ELSE <<>>) \o common_names(Tail(attrs))

RECURSIVE flatten(_)
flatten(seqs) == IF seqs = <<>> THEN <<>> ELSE Head(seqs) \o flatten(Tail(seqs))

\* the loop over a subjectAltName SEQUENCE; complete tells whether the loop
\* left the sequence at its end
RECURSIVE san_loop(_, _)
san_loop(rest, doms) ==
    LET dom == take_tagged_ber(rest)
    IN  IF dom.tag = "Ok" THEN san_loop(Tail(rest), Append(doms, dom.v))
        ELSE IF dom.e = "Malformed"
             THEN [doms |-> doms, complete |-> rest = <<>>]
             ELSE san_loop(Tail(rest), doms)

\* the domains one subjectAltName extension adds; trailing_checked: the
\* decoder rejects a SEQUENCE that is left before its end
san_domains(ext, trailing_checked) ==
    LET left == san_loop(ext.value, <<>>)
    IN  IF ext.id # "subjectAltName" THEN <<>>
        ELSE IF ~left.complete /\ trailing_checked THEN <<>>
        ELSE left.doms

RECURSIVE extension_domains(_, _)
extension_domains(exts, trailing_checked) ==
    IF exts = <<>> THEN <<>>
    ELSE san_domains(Head(exts), trailing_checked)
            \o extension_domains(Tail(exts), trailing_checked)

get_cert_domains(cert, trailing_checked) ==
    common_names(flatten(cert.subject))
        \o (IF cert.extensions.tag = "Some"
            THEN extension_domains(cert.extensions.v, trailing_checked)
            ELSE <<>>)

\* certificates given to get_cert_domains
MaxRdns == 2
MaxSan == 2

Attribute(typ, value) == [typ |-> typ, value |-> value]
Attributes ==
    {Attribute("commonName", Ber("universal", 12, FALSE, "cn.example", NONE)),
     Attribute("commonName", Ber("universal", 19, FALSE, "a.example", NONE)),
     Attribute("organizationName",
               Ber("universal", 12, FALSE, "Example Org", NONE))}

GeneralNames ==
    {Ber("context", 2, FALSE, "a.example", NONE),
     Ber("context", 2, FALSE, "*.a.example", NONE),
     Ber("context", 1, FALSE, "me@a.example", NONE),
     Ber("context", 6, FALSE, "https://a.example/", NONE),
     Ber("context", 7, FALSE, "10.0.0.1", NONE),
     Ber("context", 4, TRUE, "CN=a", NONE),
     Ber("context", 2, FALSE, "UTF8String b.example", Some("b.example"))}

SeqsUpTo(S, n) == UNION {[1..k -> S] : k \in 0..n}

Certs ==
    {[subject |-> [i \in DOMAIN rdns |-> <<rdns[i]>>], extensions |-> exts] :
        rdns \in SeqsUpTo(Attributes, MaxRdns),
        exts \in {NONE} \cup
                 {Some(<<[id |-> "subjectAltName", value |-> names]>>) :
                     names \in SeqsUpTo(GeneralNames, MaxSan)}}

InitDomains ==
    /\ NotStarted
    /\ overflow_checks = FALSE
    /\ arg \in Certs
    /\ ret = NONE

CallGetCertDomains ==
    /\ ret = NONE
    /\ \E trailing_checked \in BOOLEAN :
          ret' = Some(get_cert_domains(arg, trailing_checked))
    /\ UNCHANGED <<main_vars, overflow_checks, arg>>

SpecDomains == InitDomains /\ [][CallGetCertDomains]_vars

\* the values C18 names: content of every commonName attribute, then of every
\* e-mail, DNS-name and URI entry of the subjectAltName sequences
bytes_of(values) == [i \in DOMAIN values |-> values[i].bytes]

claimed_domains(cert) ==
    LET is_cn(attr) == attr.typ = "commonName"
        is_name(name) == /\ name.class = "context"
                         /\ name.number \in {1, 2, 6}
                         /\ ~name.constructed
        cns == SelectSeq(flatten(cert.subject), is_cn)
        sans == IF cert.extensions.tag = "Some"
                THEN flatten([i \in DOMAIN cert.extensions.v |->
                        IF cert.extensions.v[i].id = "subjectAltName"
                        THEN SelectSeq(cert.extensions.v[i].value, is_name)
                        ELSE <<>>])
                ELSE <<>>
    IN  bytes_of([i \in DOMAIN cns |-> cns[i].value]) \o bytes_of(sans)

\* C18: get_cert_domains returns every commonName value in subject order,
\* followed by every DNS-name, URI and e-mail subjectAltName value in SEQUENCE
\* order, each once per appearance with duplicates kept, and nothing else.
C18_DomainsAsClaimed ==
    ret # NONE => ret.v = claimed_domains(arg)

-----------------------------------------------------------------------------
\* belvi_log_list: Log::has_active_certs. Times are seconds since the epoch;
\* the RFC 3339 strings of the log list are well formed and stand for the
\* instant they parse to.

OLD_MAX_CERT_DURATION == 825
NEW_MAX_CERT_DURATION == 398
CERT_DURATION_SWITCH == 1670302800
SecondsPerDay == 86400

Duration_days(n) == n * SecondsPerDay

Usable(timestamp) == [tag |-> "Usable", timestamp |-> timestamp]
Retired(timestamp) == [tag |-> "Retired", timestamp |-> timestamp]
ReadOnly(timestamp) == [tag |-> "ReadOnly", timestamp |-> timestamp]
TemporalInterval(end_exclusive) == [end_exclusive |-> end_exclusive]

\* no_new_valid that never switches to the shorter certificate lifetime
no_new_valid_old_duration(timestamp, now) ==
    timestamp + Duration_days(OLD_MAX_CERT_DURATION) > now

no_new_valid(timestamp, now) ==
    LET extra_days == IF now > CERT_DURATION_SWITCH
                      THEN NEW_MAX_CERT_DURATION
                      ELSE OLD_MAX_CERT_DURATION
        oldest_certs_expiration == timestamp + Duration_days(extra_days)
    IN  oldest_certs_expiration > now

has_active_certs(self, now) ==
    IF self.temporal_interval.tag = "Some"
    THEN IF self.state.tag = "Retired"
         THEN FALSE
         ELSE now < self.temporal_interval.v.end_exclusive
    ELSE IF self.state.tag = "Retired" THEN FALSE
         ELSE IF self.state.tag = "Usable" THEN TRUE
         ELSE no_new_valid(self.state.timestamp, now)

\* the times has_active_certs is asked at, and the times of the log list
Nows == {1650000000, CERT_DURATION_SWITCH, CERT_DURATION_SWITCH + 1, 1700000000}
StateTimestamps ==
    {1600000000,
     1650000000 - Duration_days(OLD_MAX_CERT_DURATION),
     1650000000 - Duration_days(OLD_MAX_CERT_DURATION) + 1,
     CERT_DURATION_SWITCH - Duration_days(NEW_MAX_CERT_DURATION),
     1700000000 - Duration_days(NEW_MAX_CERT_DURATION),
     1700000000 - Duration_days(NEW_MAX_CERT_DURATION) + 1}
IntervalEnds == {1650000000, 1700000000, 1700000001, 1800000000}

InitActive ==
    /\ NotStarted
    /\ overflow_checks = FALSE
    /\ \E timestamp \in StateTimestamps :
       \E state \in {Usable(timestamp), Retired(timestamp), ReadOnly(timestamp)} :
       \E temporal_interval \in
              {NONE} \cup {Some(TemporalInterval(e)) : e \in IntervalEnds} :
       \E now \in Nows :
          arg = [log |-> [state |-> state,
                          temporal_interval |-> temporal_interval],
                 now |-> now]
    /\ ret = NONE

CallHasActiveCerts ==
    /\ ret = NONE
    /\ ret' = Some(has_active_certs(arg.log, arg.now))
    /\ UNCHANGED <<main_vars, overflow_checks, arg>>

SpecActive == InitActive /\ [][CallHasActiveCerts]_vars

\* the longest certificate lifetime at time now, in seconds
max_cert_duration(now) ==
    Duration_days(IF now > CERT_DURATION_SWITCH
                  THEN NEW_MAX_CERT_DURATION ELSE OLD_MAX_CERT_DURATION)

\* C19 as claimed: has_active_certs(now) is true iff the state is not
\* retired, and there is no temporal interval or now < interval end, and a
\* read-only state has timestamp + max-cert-duration > now (825 days before
\* 2022-12-06, 398 days after).
C19_ActiveAsClaimed ==
    ret # NONE =>
        LET log == arg.log
            now == arg.now
        IN  ret.v <=>
               /\ log.state.tag # "Retired"
               /\ \/ log.temporal_interval = NONE
                  \/ now < log.temporal_interval.v.end_exclusive
               /\ log.state.tag = "ReadOnly" =>
                     log.state.timestamp + max_cert_duration(now) > now

\* C19 (amended): has_active_certs(now) is true iff the state is not retired
\* and, for a log with a temporal interval, now < interval end (the read-only
\* timestamp is not looked at), and for a log without one, the state is
\* usable or it is read-only with timestamp + max-cert-duration > now, the
\* duration being 398 days when now is after 2022-12-06T05:00:00Z and 825
\* days otherwise.
C19_ActiveByIntervalOrState ==
    ret # NONE =>
        LET log == arg.log
            now == arg.now
        IN  ret.v <=>
               /\ log.state.tag # "Retired"
               /\ IF log.temporal_interval # NONE
                  THEN now < log.temporal_interval.v.end_exclusive
                  ELSE log.state.tag = "ReadOnly" =>
                          log.state.timestamp + max_cert_duration(now) > now

\* a read-only log inside its temporal interval whose last certificates have
\* expired is reported active
C19_Witness ==
    /\ ret = Some(TRUE)
    /\ arg.log.state.tag = "ReadOnly"
    /\ arg.log.temporal_interval # NONE
    /\ arg.log.state.timestamp + max_cert_duration(arg.now) <= arg.now

-----------------------------------------------------------------------------
\* belvi_db: the SQL function domrev. A byte string is a sequence of
\* one-character strings.

contains(dom, c) == \E i \in DOMAIN dom : dom[i] = c

\* dom.rsplit(|c| *c == b'.'): the parts between the dots, last part first
RECURSIVE rsplit(_)
rsplit(dom) ==
    IF ~contains(dom, ".")
    THEN <<dom>>
    ELSE LET last == CHOOSE i \in DOMAIN dom :
                        /\ dom[i] = "."
                        /\ \A j \in DOMAIN dom : dom[j] = "." => j <= i
         IN  <<SubSeq(dom, last + 1, Len(dom))>>
                \o rsplit(SubSeq(dom, 1, last - 1))

\* the loop body over the parts: extend_from_slice(part); push(b'.')
RECURSIVE extend_with_dots(_)
extend_with_dots(parts) ==
    IF parts = <<>> THEN <<>>
    ELSE Head(parts) \o <<".">> \o extend_with_dots(Tail(parts))

pop(v) == SubSeq(v, 1, Len(v) - 1)

\* domrev that leaves the dot pushed after the last part
domrev_keeping_last_dot(dom) ==
    IF contains(dom, "@") THEN dom ELSE extend_with_dots(rsplit(dom))

domrev(dom) ==
    IF contains(dom, "@")
    THEN dom
    ELSE pop(extend_with_dots(rsplit(dom)))

MaxDomLen == 4
DomBytes == {"a", "b", ".", "@"}

InitDomrev ==
    /\ NotStarted
    /\ overflow_checks = FALSE
    /\ arg \in SeqsUpTo(DomBytes, MaxDomLen)
    /\ ret = NONE

\* SELECT domrev(x)
CallDomrev ==
    /\ ret = NONE
    /\ ret' = Some(<<domrev(arg)>>)
    /\ UNCHANGED <<main_vars, overflow_checks, arg>>

\* SELECT domrev(domrev(x))
CallDomrevAgain ==
    /\ ret # NONE
    /\ Len(ret.v) = 1
    /\ ret' = Some(Append(ret.v, domrev(ret.v[1])))
    /\ UNCHANGED <<main_vars, overflow_checks, arg>>

NextDomrev == CallDomrev \/ CallDomrevAgain

SpecDomrev == InitDomrev /\ [][NextDomrev]_vars

\* C20: domrev(domrev(x)) = x for every ASCII byte string x without '@',
\* empty labels and leading and trailing dots included, and domrev(x) = x for
\* every x that contains '@'.
C20_DomrevInvolution ==
    ret # NONE =>
        /\ contains(arg, "@") => ret.v[1] = arg
        /\ (~contains(arg, "@") /\ Len(ret.v) = 2) => ret.v[2] = arg

\* domrev applied twice to a name with a leading dot, which it moves to the end
C20_Witness ==
    /\ ret # NONE
    /\ Len(ret.v) = 2
    /\ Len(arg) >= 2
    /\ arg[1] = "." /\ arg[Len(arg)] # "."
    /\ ~contains(arg, "@")
    /\ ret.v[1] # arg
    /\ ret.v[1][Len(arg)] = "."

-----------------------------------------------------------------------------
\* Safety of the ranges next_batch returns

\* C27: next_batch never returns a range that contains an index >=
\* sth.tree_size, in every reachable state and for every tree_size >= 0, the
\* empty log included.
C27_BatchBelowTreeSize ==
    \A l \in Logs : (Known(l) /\ next_batch(l).tag = "Some") =>
        next_batch(l).v[2] < sth(l).tree_size

\* C28: every range next_batch returns in a reachable state spans at most
\* MAX_PAGE_SIZE indices, in the initial, forward, backfill and gap-filling
\* cases alike.
C28_BatchWithinPage ==
    \A l \in Logs : (Known(l) /\ next_batch(l).tag = "Some") =>
        next_batch(l).v[2] - next_batch(l).v[1] + 1 <= MAX_PAGE_SIZE

\* a full page of backfill is due
C28_Witness ==
    \E l \in Logs :
        /\ Known(l)
        /\ fetched_to(l).tag = "Fetching"
        /\ next_batch(l).tag = "Some"
        /\ next_batch(l).v[2] = fetched_to(l).r[1] - 1
        /\ next_batch(l).v[2] - next_batch(l).v[1] + 1 = MAX_PAGE_SIZE

C30_NoneMeansDone ==
    \A l \in Logs : (Known(l) /\ next_batch(l) = NONE) =>
        /\ fetched_to(l).tag = "Fetching"
        /\ fetched_to(l).r[2] = sth(l).tree_size - 1
        /\ \/ fetched_to(l).r[1] = 0
           \/ fetched_to(l).r[2] - fetched_to(l).r[1] >= MIN_HISTORY

-----------------------------------------------------------------------------
\* Errors and durability in main

\* C24: a failure to fetch the STH of one log ends the current round only:
\* the process does not terminate, the recorded STH and fetched_to of every
\* log stay as they were, and a later round refreshes the STHs again.
C24_SthFailureEndsRoundOnly ==
    [][pc = "update_sths" => pc' # "panicked"]_vars

\* the index ranges state.json holds for a log are rows of committed
\* transactions
covered(range, rows) == \E c \in rows : c[1] <= range[1] /\ range[2] <= c[2]

\* C26: in every round the transaction is committed before state.json is
\* written, so at every instant, a crash between two steps included, the
\* fetched_to on disk covers only index ranges whose rows are committed; a
\* restart may fetch entries again but skips none.
C26_SavedRangesCommitted ==
    /\ \A l \in Logs : saved[l] # NONE =>
          \A r \in Ranges(saved[l].v.fetched_to) : covered(r, committed[l])
    /\ pc = "update_sths" =>
          \A l \in Logs : log_states[l] # NONE =>
              \A r \in Ranges(log_states[l].v.fetched_to) : covered(r, stored[l])

\* the process died after COMMIT and before the write of state.json, and
\* has been started again: rows are committed that state.json does not cover
C26_Witness ==
    /\ pc = "update_sths"
    /\ \E l \in Logs :
          /\ committed[l] # {}
          /\ saved[l] # NONE
          /\ \E c \in committed[l] :
                ~\E r \in Ranges(saved[l].v.fetched_to) : covered(c, {r})

-----------------------------------------------------------------------------
\* Fetcher::fetch_entries on the answer of a log. A JSON value is a record
\* with its type; a base64 string is a record that tells whether it decodes
\* and to which bytes.

Base64(valid, bytes) == [valid |-> valid, bytes |-> bytes]
base64_decode(b64) == IF b64.valid THEN Ok(b64.bytes) ELSE Err("Base64Error")

JsonString == [type |-> "string"]
JsonItem(extra_data, leaf_input) ==
    [type |-> "object", extra_data |-> extra_data, leaf_input |-> leaf_input]
JsonRoot(entries) == [type |-> "object", entries |-> entries]

from_get_entries_item(item) ==
    IF item.type # "object" THEN Err("GetEntriesEntryNotObject")
    ELSE IF item.extra_data = NONE THEN Err("GetEntriesEntryNoExtraData")
    ELSE LET extra_data == base64_decode(item.extra_data.v)
         IN  IF extra_data.tag # "Ok" THEN extra_data
             ELSE IF item.leaf_input = NONE
             THEN Err("GetEntriesEntryNoLeafInput")
             ELSE LET leaf_bytes == base64_decode(item.leaf_input.v)
                  IN  IF leaf_bytes.tag # "Ok" THEN leaf_bytes
                      ELSE LET leaf_input == MerkleTreeLeaf_parse(leaf_bytes.v)
                           IN  IF leaf_input.tag # "Ok" THEN leaf_input
                               ELSE Ok([extra_data |-> extra_data.v,
                                        leaf_input |-> leaf_input.v])

\* the loop of GetEntriesItem::parse over the entries array
RECURSIVE parse_entries(_, _)
parse_entries(entries, parsed_entries) ==
    IF entries = <<>> THEN Ok(parsed_entries)
    ELSE LET item == from_get_entries_item(Head(entries))
         IN  IF item.tag # "Ok" THEN item
             ELSE parse_entries(Tail(entries), Append(parsed_entries, item.v))

\* body.json is NONE when the text is not JSON
GetEntriesItem_parse(body) ==
    IF body.json = NONE THEN Err("JsonError")
    ELSE IF body.json.v.type # "object" THEN Err("GetEntriesRootNotObject")
    ELSE IF body.json.v.entries = NONE THEN Err("GetEntriesNoEntriesArray")
    ELSE parse_entries(body.json.v.entries.v, <<>>)

\* resp is NONE when the request fails
fetch_entries(resp) ==
    IF resp = NONE THEN Err("Reqwest")
    ELSE IF resp.v.status # 200 THEN Err("BadStatus")
    ELSE LET parsed == GetEntriesItem_parse(resp.v.body)
         IN  IF parsed.tag = "Ok" THEN parsed ELSE PANIC

\* answers of a log to get-entries
MaxEntries == 2
BytesOk == <<1, 2>>
LeafInputs ==
    {LeafBytes(2, 0, 0, <<0, 0>>), LeafBytes(10, 0, 0, <<0, 0>>),
     LeafBytes(20, 1, 0, <<0, 0>>), LeafBytes(20, 0, 2, <<0, 0>>),
     LeafBytes(20, 0, 0, <<0, 0>>), LeafBytes(MaxLeafLen, 0, 1, <<0, 0>>)}
JsonItems ==
    {JsonString,
     JsonItem(NONE, Some(Base64(TRUE, LeafBytes(20, 0, 0, <<0, 0>>)))),
     JsonItem(Some(Base64(FALSE, <<>>)), NONE),
     JsonItem(Some(Base64(TRUE, BytesOk)), NONE),
     JsonItem(Some(Base64(TRUE, BytesOk)), Some(Base64(FALSE, <<>>)))}
    \cup {JsonItem(Some(Base64(TRUE, BytesOk)), Some(Base64(TRUE, leaf))) :
             leaf \in LeafInputs}
Bodies ==
    {[json |-> NONE], [json |-> Some(JsonString)],
     [json |-> Some(JsonRoot(NONE))]}
    \cup {[json |-> Some(JsonRoot(Some(entries)))] :
             entries \in SeqsUpTo(JsonItems, MaxEntries)}
Responses ==
    {NONE} \cup {Some([status |-> status, body |-> body]) :
                    status \in {200, 429}, body \in Bodies}

InitFetchEntries ==
    /\ NotStarted
    /\ overflow_checks = FALSE
    /\ arg \in Responses
    /\ ret = NONE

CallFetchEntries ==
    /\ ret = NONE
    /\ ret' = fetch_entries(arg)
    /\ UNCHANGED <<main_vars, overflow_checks, arg>>

SpecFetchEntries == InitFetchEntries /\ [][CallFetchEntries]_vars

\* C23: a malformed get-entries response (invalid JSON, bad base64, short
\* payload, unknown entry type) is a transient error of the batch:
\* fetch_entries reports it as an error value, so that the fetch state of the
\* log stays unchanged and the process keeps running.
C23_MalformedResponseIsError ==
    (/\ ret # NONE
     /\ arg # NONE
     /\ arg.v.status = 200
     /\ GetEntriesItem_parse(arg.v.body).tag = "Err") => ret.tag = "Err"

-----------------------------------------------------------------------------
\* The INSERTs of fetch_next_batch. A table is the sequence of its rows in
\* rowid order; arg holds what has been processed, ret the three tables.

\* belvi_hash::db: the first 16 bytes of the SHA-256 of the bytes
db(bytes) == <<"sha256[0..16]", bytes>>

RECURSIVE from_le_bytes(_)
from_le_bytes(b) ==
    IF b = <<>> THEN 0 ELSE b[1] + 256 * from_le_bytes(Tail(b))

\* LogId::num on the bytes the log id decodes to
num(log_id) == from_le_bytes(SubSeq(log_id, 1, 4))

\* INSERT into log_entries without OR IGNORE
insert_entry_always(log_entries, row) == Append(log_entries, row)

\* INSERT OR IGNORE INTO certs: leaf_hash is unique
insert_cert(certs, row) ==
    LET same(r) == r.leaf_hash = row.leaf_hash
    IN  IF (\E i \in DOMAIN certs : same(certs[i])) THEN certs ELSE Append(certs, row)

\* the unique key of log_entries is (leaf_hash, log_id, idx); the statement
\* binds leaf_hash, log_id and ts, so idx is the same in every row it stores
log_entries_key(r) == <<r.leaf_hash, r.log_id>>

\* INSERT OR IGNORE INTO log_entries (leaf_hash, log_id, ts)
insert_entry(log_entries, row) ==
    LET same(r) == log_entries_key(r) = log_entries_key(row)
    IN  IF (\E i \in DOMAIN log_entries : same(log_entries[i])) THEN log_entries
        ELSE Append(log_entries, row)

\* INSERT OR IGNORE INTO domains: (leaf_hash, domain) is unique
insert_domain(domains, row) ==
    LET same(r) == r.leaf_hash = row.leaf_hash /\ r.domain = row.domain
    IN  IF (\E i \in DOMAIN domains : same(domains[i])) THEN domains ELSE Append(domains, row)

RECURSIVE insert_domains(_, _, _)
insert_domains(domains, leaf_hash, doms) ==
    IF doms = <<>> THEN domains
    ELSE insert_domains(
            insert_domain(domains, [leaf_hash |-> leaf_hash, domain |-> Head(doms)]),
            leaf_hash, Tail(doms))

\* the body of the loop over the entries of a response
insert_item(tables, id, idx, entry) ==
    LET log_timestamp == entry.timestamp
        cert == entry.tbs_certificate
        domains == get_cert_domains(cert, TRUE)
        leaf_hash == db(entry.inner_cert)
        extra_hash == db(entry.extra_data)
    IN  [certs |-> insert_cert(tables.certs,
                      [leaf_hash |-> leaf_hash, extra_hash |-> extra_hash,
                       not_before |-> cert.not_before,
                       not_after |-> cert.not_after]),
         log_entries |-> insert_entry(tables.log_entries,
                      [leaf_hash |-> leaf_hash, log_id |-> num(id),
                       ts |-> log_timestamp]),
         domains |-> insert_domains(tables.domains, leaf_hash, domains)]

\* for (idx, entry) in entries.into_iter().enumerate(), idx counted from start
RECURSIVE insert_batch(_, _, _, _)
insert_batch(tables, id, start, entries) ==
    IF entries = <<>> THEN tables
    ELSE insert_batch(insert_item(tables, id, start, Head(entries)),
                      id, start + 1, Tail(entries))

\* three logs; the ids of the first and the third start with the same four
\* bytes
LogIds == {<<1, 0, 0, 0, 5>>, <<2, 0, 0, 0, 5>>, <<1, 0, 0, 0, 6>>}

\* two certificates that share a name
TbsCertificates ==
    <<[subject |-> <<<<Attribute("commonName",
                                 Ber("universal", 12, FALSE, "cn.example", NONE))>>>>,
       extensions |-> Some(<<[id |-> "subjectAltName", value |->
                     <<Ber("context", 2, FALSE, "a.example", NONE),
                       Ber("context", 2, FALSE, "*.a.example", NONE)>>]>>),
       not_before |-> 1, not_after |-> 2],
      [subject |-> <<>>,
       extensions |-> Some(<<[id |-> "subjectAltName", value |->
                     <<Ber("context", 2, FALSE, "a.example", NONE)>>]>>),
       not_before |-> 1, not_after |-> 3]>>

\* the entries of a log: every log holds both certificates, each once
LogSize == 2
MaxResponses == 3
entry_at(id, idx) ==
    LET n == ((idx + id[1]) % 2) + 1
    IN  [inner_cert |-> <<"der", n>>,
         tbs_certificate |-> TbsCertificates[n],
         extra_data |-> <<"chain", n>>,
         timestamp |-> 10 * id[5] + idx]

\* the answer of log id to get-entries?start=..: len entries
response(id, start, len) == [i \in 1..len |-> entry_at(id, start + i - 1)]

NoTables == [certs |-> <<>>, log_entries |-> <<>>, domains |-> <<>>]

InitInsert ==
    /\ NotStarted
    /\ overflow_checks = FALSE
    /\ arg = [observed |-> {}, last |-> NONE, again |-> FALSE, responses |-> 0]
    /\ ret = NoTables

\* fetch_next_batch stores the entries of one response
ProcessResponse ==
    /\ arg.responses < MaxResponses
    /\ \E id \in LogIds, start \in 0..(LogSize - 1) :
       \E len \in 1..(LogSize - start) :
          LET entries == response(id, start, len)
          IN  /\ ret' = insert_batch(ret, id, start, entries)
              /\ arg' = [observed |-> arg.observed \cup
                              {<<id, db(entries[i].inner_cert)>> :
                                  i \in DOMAIN entries},
                         last |-> Some([id |-> id, start |-> start,
                                        entries |-> entries]),
                         again |-> FALSE,
                         responses |-> arg.responses + 1]
    /\ UNCHANGED <<main_vars, overflow_checks>>

\* the same range is fetched again and the log gives the same answer
ProcessResponseAgain ==
    /\ arg.responses < MaxResponses
    /\ arg.last # NONE
    /\ ret' = insert_batch(ret, arg.last.v.id, arg.last.v.start,
                           arg.last.v.entries)
    /\ arg' = [arg EXCEPT !.again = TRUE, !.responses = @ + 1]
    /\ UNCHANGED <<main_vars, overflow_checks>>

NextInsert == ProcessResponse \/ ProcessResponseAgain

SpecInsert == InitInsert /\ [][NextInsert]_vars

rows_of(table, leaf_hash) ==
    Cardinality({i \in DOMAIN table : table[i].leaf_hash = leaf_hash})

\* C21: processing the same get-entries response for the same log and start
\* index a second time leaves certs, log_entries and domains exactly as they
\* were after the first processing.
C21_RefetchIdempotent ==
    arg.last # NONE =>
        insert_batch(ret, arg.last.v.id, arg.last.v.start, arg.last.v.entries)
            = ret

\* a response of two entries has been processed a second time
C21_Witness ==
    /\ arg.again
    /\ Len(arg.last.v.entries) = 2
    /\ Len(ret.log_entries) >= 2
    /\ Len(ret.domains) >= 2

\* C22: a certificate observed in k distinct logs is exactly one row of
\* certs and exactly k rows of log_entries, one per log, for every set of
\* logs, logs whose 32-bit log_id_num collide included.
C22_OneEntryPerLog ==
    \A o \in arg.observed :
        /\ rows_of(ret.certs, o[2]) = 1
        /\ rows_of(ret.log_entries, o[2])
              = Cardinality({id \in LogIds : <<id, o[2]>> \in arg.observed})

----------------------------------------------------------------------------
(* The tasks of one round. fetch_state and ctx are behind mutexes; a task
   takes them to compute its batch, gives them up for the request, and takes
   them again to store the entries and adjust log_states. The holder of the
   mutexes, the batches, the answers and what each task saw are in arg. *)

\* the whole of fetch_next_batch on fs = [log_states, log_transient] with the
\* answer resp: NONE for Err, Some(k) for k entries
fetch_next_batch_of(fs, l, resp, oc) ==
    LET batch == IF fs.log_states[l].tag = "None" THEN PANIC
                 ELSE next_batch_of(fs.log_transient[l], fs.log_states[l].v, oc)
    IN  IF batch = PANIC THEN PANIC
        ELSE IF batch = NONE \/ resp = NONE THEN fs
        ELSE LET start == batch.v[1]
                 end == batch.v[2]
                 new_end == start + resp.v - 1
                 state == fs.log_states[l].v
                 merged == update_fetched_to(state.fetched_to, <<start, new_end>>, oc)
             IN  IF start > end \/ resp.v = 0 \/ new_end > end \/ merged = PANIC
                 THEN PANIC
                 ELSE [log_states |-> [fs.log_states EXCEPT ![l] =
                            Some(LogFetchState(state.sth, merged))],
                       log_transient |-> [fs.log_transient EXCEPT ![l] =
                            [fetches |-> @.fetches + 1,
                             highest_page_size |->
                                 Max(@.highest_page_size, resp.v)]]]

\* the tasks of a round run one after the other in the given order
RECURSIVE sequentially(_, _, _, _)
sequentially(fs, order, resps, oc) ==
    IF order = <<>> \/ fs = PANIC THEN fs
    ELSE sequentially(fetch_next_batch_of(fs, Head(order), resps[Head(order)], oc),
                      Tail(order), resps, oc)

Orders == {o \in [1..Cardinality(Logs) -> Logs] : \A l \in Logs : \E i \in DOMAIN o : o[i] = l}

\* a task stores its result into the map it saw when it computed its batch
write_back_as_seen(current, seen, l, entry) == [seen EXCEPT ![l] = entry]

\* a task stores its result into the entry of its log
write_back(current, seen, l, entry) == [current EXCEPT ![l] = entry]

\* the states of a log a round may start in: the STH is known and nothing is
\* fetched, or the first page has been fetched
RoundStates(l) ==
    UNION {LET fresh == LogFetchState(new_sth, NothingFetched)
               first == next_batch_of(LogTransientDefault, fresh, FALSE).v
           IN  {[state |-> fresh, transient |-> LogTransientDefault],
                [state |-> LogFetchState(new_sth, Fetching(first)),
                 transient |-> [fetches |-> 1,
                                highest_page_size |-> U64_MAX]]}
           : new_sth \in Sths(l)}

\* main at "let mut futures = Vec::new()"
InitRound ==
    /\ \E start \in [Logs -> UNION {RoundStates(l) : l \in Logs}] :
         /\ \A l \in Logs : start[l] \in RoundStates(l)
         /\ log_states = [l \in Logs |-> Some(start[l].state)]
         /\ log_transient = [l \in Logs |-> start[l].transient]
    /\ saved = log_states
    /\ checked_logs = {}
    /\ tasks = [l \in Logs |-> "idle"]
    /\ pc = "loop"
    /\ stored = [l \in Logs |-> {}]
    /\ committed = [l \in Logs |-> {}]
    /\ overflow_checks \in BOOLEAN
    /\ largest_response = [l \in Logs |-> 0]
    /\ arg = [lock |-> NONE,
              start |-> [log_states |-> log_states, log_transient |-> log_transient],
              seen |-> [l \in Logs |-> NONE],
              batch |-> [l \in Logs |-> NONE],
              resp |-> [l \in Logs |-> NONE]]
    /\ ret = NONE

\* main: one future per unchecked log is pushed
SpawnTasks ==
    /\ pc = "loop"
    /\ tasks' = [l \in Logs |-> IF l \in checked_logs THEN "idle" ELSE "pending"]
    /\ pc' = "round"
    /\ UNCHANGED <<log_states, saved, log_transient, checked_logs, stored,
                 committed, overflow_checks, largest_response, arg, ret>>

\* a task takes the mutexes to compute its batch
LockToRead(l) ==
    /\ pc = "round" /\ tasks[l] = "pending"
    /\ arg.lock = NONE
    /\ arg' = [arg EXCEPT !.lock = Some(l)]
    /\ tasks' = [tasks EXCEPT ![l] = "reading"]
    /\ UNCHANGED <<log_states, saved, log_transient, checked_logs, pc, stored,
                 committed, overflow_checks, largest_response, ret>>

\* next_batch under the mutexes, which are given up before the request
ReadBatch(l) ==
    /\ pc = "round" /\ tasks[l] = "reading"
    /\ arg' = [arg EXCEPT !.lock = IF next_batch(l) = PANIC THEN @ ELSE NONE,
                          !.seen[l] = Some(log_states),
                          !.batch[l] = next_batch(l)]
    /\ IF next_batch(l) = PANIC
       THEN pc' = "panicked" /\ tasks' = tasks
       ELSE /\ pc' = pc
            /\ tasks' = [tasks EXCEPT ![l] =
                            IF next_batch(l) = NONE THEN "none" ELSE "fetching"]
    /\ UNCHANGED <<log_states, saved, log_transient, checked_logs, stored,
                 committed, overflow_checks, largest_response, ret>>

\* fetch_entries returns: Err, or k entries; the asserts on k
Respond(l) ==
    /\ pc = "round" /\ tasks[l] = "fetching"
    /\ LET start == arg.batch[l].v[1]
           end == arg.batch[l].v[2]
       IN  \/ /\ tasks' = [tasks EXCEPT ![l] = "none"]
              /\ UNCHANGED <<arg, pc>>
           \/ \E k \in AcceptedSizes(end - start + 1) \cup {0, end - start + 2} :
                /\ arg' = [arg EXCEPT !.resp[l] = Some(k)]
                /\ IF start > end \/ k = 0 \/ start + k - 1 > end
                   THEN pc' = "panicked" /\ tasks' = tasks
                   ELSE pc' = pc /\ tasks' = [tasks EXCEPT ![l] = "fetched"]
    /\ UNCHANGED <<log_states, saved, log_transient, checked_logs, stored,
                 committed, overflow_checks, largest_response, ret>>

\* a task takes the mutexes to store what it fetched
LockToWrite(l) ==
    /\ pc = "round" /\ tasks[l] = "fetched"
    /\ arg.lock = NONE
    /\ arg' = [arg EXCEPT !.lock = Some(l)]
    /\ tasks' = [tasks EXCEPT ![l] = "writing"]
    /\ UNCHANGED <<log_states, saved, log_transient, checked_logs, pc, stored,
                 committed, overflow_checks, largest_response, ret>>

\* the INSERTs, log_transient and "adjust log_states" under the mutexes
WriteResults(l) ==
    /\ pc = "round" /\ tasks[l] = "writing"
    /\ LET start == arg.batch[l].v[1]
           k == arg.resp[l].v
           new_end == start + k - 1
           state == log_states[l].v
           merged == update_fetched_to(state.fetched_to, <<start, new_end>>,
                                      overflow_checks)
       IN  /\ log_transient' = [log_transient EXCEPT ![l] =
                  [fetches |-> @.fetches + 1,
                   highest_page_size |-> Max(@.highest_page_size, k)]]
           /\ largest_response' = [largest_response EXCEPT ![l] = Max(@, k)]
           /\ stored' = [stored EXCEPT ![l] = insert_rows(@, <<start, new_end>>)]
           /\ arg' = [arg EXCEPT !.lock = IF merged = PANIC THEN @ ELSE NONE]
           /\ IF merged = PANIC
              THEN /\ pc' = "panicked"
                   /\ UNCHANGED <<log_states, tasks>>
              ELSE /\ log_states' = write_back(log_states, arg.seen[l].v, l,
                                       Some(LogFetchState(state.sth, merged)))
                   /\ tasks' = [tasks EXCEPT ![l] = "some"]
                   /\ pc' = pc
    /\ UNCHANGED <<saved, checked_logs, committed, overflow_checks, ret>>

\* join_all returns; the round goes on to COMMIT
JoinAll ==
    /\ pc = "round"
    /\ \A l \in Logs : tasks[l] \in {"idle", "some", "none"}
    /\ checked_logs' = checked_logs \cup {l \in Logs : tasks[l] = "none"}
    /\ committed' = stored
    /\ pc' = "committed"
    /\ UNCHANGED <<log_states, saved, log_transient, tasks, stored,
                 overflow_checks, largest_response, arg, ret>>

NextRound ==
    \/ SpawnTasks
    \/ \E l \in Logs : \/ LockToRead(l)
                       \/ ReadBatch(l)
                       \/ Respond(l)
                       \/ LockToWrite(l)
                       \/ WriteResults(l)
    \/ JoinAll

SpecRound == InitRound /\ [][NextRound]_vars

----------------------------------------------------------------------------
(* Termination of the loop of main when every log answers get-sth and
   answers every get-entries request with 1 .. end - start + 1 entries.
   update_sths runs once per process, so the STH is fixed while the loop
   runs; the states a loop may start in are reached through earlier runs. *)

\* fetch_next_batch with such an answer; fetches is followed up to MaxFetches,
\* next_batch only asks whether it is above FETCHES_FOR_SMALLER_PAGES
FetchAnswered(l) ==
    /\ pc = "round" /\ tasks[l] = "pending"
    /\ next_batch(l).tag = "Some"
    /\ LET start == next_batch(l).v[1]
           end == next_batch(l).v[2]
       IN  \E k \in AcceptedSizes(end - start + 1) :
             LET new_end == start + k - 1
                 state == log_states[l].v
                 merged == update_fetched_to(state.fetched_to, <<start, new_end>>,
                                            overflow_checks)
             IN  /\ log_transient' = [log_transient EXCEPT ![l] =
                        [fetches |-> Min(@.fetches + 1, MaxFetches),
                         highest_page_size |-> Max(@.highest_page_size, k)]]
                 /\ largest_response' = [largest_response EXCEPT
                                             ![l] = Max(@, k)]
                 /\ stored' = [stored EXCEPT
                                   ![l] = insert_rows(@, <<start, new_end>>)]
                 /\ IF start > end \/ merged = PANIC
                    THEN /\ pc' = "panicked"
                         /\ UNCHANGED <<log_states, tasks>>
                    ELSE /\ log_states' = [log_states EXCEPT ![l] =
                                Some(LogFetchState(state.sth, merged))]
                         /\ tasks' = [tasks EXCEPT ![l] = "some"]
                         /\ pc' = pc
    /\ UNCHANGED <<saved, checked_logs, committed, overflow_checks, arg, ret>>

\* one step of the running process
Step ==
    \/ UpdateSths
    \/ RoundBegin
    \/ LoopExit
    \/ \E l \in Logs : \/ BatchNothing(l)
                       \/ BatchPanic(l)
                       \/ FetchAnswered(l)
    \/ RoundEnd
    \/ SaveState

NextAnswered == Step \/ Restart

\* the process keeps running while it can; nothing obliges a restart
SpecAnswered == Init /\ [][NextAnswered]_vars /\ WF_vars(Step)

\* C31: with the STH fixed and every get-entries request answered with at
\* least one and at most the requested number of entries, a loop of main
\* started in any reachable state reaches, after finitely many fetches, the
\* point where every log has returned None, and main exits.
C31_LoopTerminates == (pc = "loop") ~> (pc = "exited")

----------------------------------------------------------------------------
(* The frame of update_sths *)

\* C32: update_sths leaves the fetched_to of every log it knows as it was
\* and replaces only its sth; a log seen for the first time gets an entry
\* with the fetched STH and nothing fetched.
C32_UpdateSthsFrame ==
    [][pc = "update_sths" /\ pc' = "loop" =>
          \A l \in Logs :
              /\ log_states'[l].tag = "Some"
              /\ log_states'[l].v.sth \in Sths(l)
              /\ log_states'[l].v.fetched_to =
                     IF Known(l) THEN fetched_to(l) ELSE NothingFetched]_vars

\* update_sths has run in a process started on a state in which argon had
\* fetched a range, and argon has grown since
C32_Witness ==
    /\ pc = "loop"
    /\ checked_logs = {}
    /\ log_transient["argon"].fetches = 0
    /\ fetched_to("argon").tag = "Fetching"
    /\ highest_fetched(fetched_to("argon")) < sth("argon").tree_size - 1

----------------------------------------------------------------------------
(* What the parsers of log_data.rs return *)

\* the bytes TimestampedEntry::parse is given, directly or by
\* MerkleTreeLeaf::parse, and what it returned for them
entry_bytes == IF arg.fn = "TimestampedEntry" THEN arg.v ELSE slice_from(arg.v, 2)
entry_parsed ==
    IF arg.fn = "MerkleTreeLeaf" /\ ret.tag = "Ok"
    THEN Ok(ret.v.timestamped_entry)
    ELSE ret
entry_reached ==
    /\ ret # NONE
    /\ arg.fn = "MerkleTreeLeaf" => Len(arg.v) > 3 /\ arg.v[2] = 0
    /\ Len(entry_bytes) > 11
entry_type_of(v) == from_be_bytes(slice(v, 8, 9))

----------------------------------------------------------------------------
(* Query::search_sync in Subdomain mode *)

\* the ASCII code of a byte
byte(c) ==
    IF c = "-" THEN 45
    ELSE IF c = "." THEN 46
    ELSE IF c = "/" THEN 47
    ELSE IF c = "@" THEN 64
    ELSE IF c = "A" THEN 65
    ELSE IF c = "a" THEN 97
    ELSE 98

to_ascii_lowercase(query) ==
    [i \in DOMAIN query |-> IF query[i] = "A" THEN "a" ELSE query[i]]

\* a < b for byte strings, as memcmp orders BLOBs
RECURSIVE bytes_lt(_, _)
bytes_lt(a, b) ==
    IF b = <<>> THEN FALSE
    ELSE IF a = <<>> THEN TRUE
    ELSE IF byte(Head(a)) # byte(Head(b)) THEN byte(Head(a)) < byte(Head(b))
    ELSE bytes_lt(Tail(a), Tail(b))

\* the bounds that include the queried name itself
subdomain_bounds_from_name(query) ==
    <<domrev(to_ascii_lowercase(query)),
      domrev(to_ascii_lowercase(query)) \o <<"/">>>>

\* the two parameters bound to recent_certs_sub.sql
subdomain_bounds(query) ==
    <<domrev(to_ascii_lowercase(query)) \o <<".">>,
      domrev(to_ascii_lowercase(query)) \o <<"/">>>>

\* the row of a domain is selected: lower <= domrev(domain) < upper
selected(domain, bounds) ==
    /\ ~bytes_lt(domrev(domain), bounds[1])
    /\ bytes_lt(domrev(domain), bounds[2])

MaxQueryLen == 3
DomainBytes == {"a", "-", "."}
QueryBytes == DomainBytes \cup {"A"}

InitSubdomain ==
    /\ NotStarted
    /\ overflow_checks = FALSE
    /\ arg \in [domain : SeqsUpTo(DomainBytes, MaxDomLen),
                query : SeqsUpTo(QueryBytes, MaxQueryLen)]
    /\ ret = NONE

\* search_sync with (Some(query), QueryMode::Subdomain) over a table that
\* holds the one domain
SearchSubdomain ==
    /\ ret = NONE
    /\ ret' = Some(selected(arg.domain, subdomain_bounds(arg.query)))
    /\ UNCHANGED <<main_vars, overflow_checks, arg>>

SpecSubdomain == InitSubdomain /\ [][SearchSubdomain]_vars

\* d ends with '.' followed by q
ends_with_dot(d, q) ==
    /\ Len(d) > Len(q)
    /\ SubSeq(d, Len(d) - Len(q), Len(d)) = <<".">> \o q

\* C35: for lowercase domains d and q without '@', the search in Subdomain
\* mode for q selects d if and only if d ends with '.' followed by q.
C35_SubdomainRangeExact ==
    (ret # NONE /\ arg.query = to_ascii_lowercase(arg.query)) =>
        (ret.v <=> ends_with_dot(arg.domain, arg.query))

\* a subdomain whose own label sorts below '.' was selected
C35_Witness ==
    /\ ret = Some(TRUE)
    /\ arg.query = <<"a">>
    /\ arg.domain = <<"-", ".", "a">>

----------------------------------------------------------------------------
(* belvi_frontend::domain_sort *)

\* the closure given to sort_by: the segments are compared pairwise from the
\* last one; Less, Equal or Greater, or the panic of assert_eq!(a, b)
RECURSIVE zip_cmp(_, _)
zip_cmp(a_parts, b_parts) ==
    IF a_parts = <<>> \/ b_parts = <<>> THEN "Equal"
    ELSE IF bytes_lt(Head(a_parts), Head(b_parts)) THEN "Less"
    ELSE IF bytes_lt(Head(b_parts), Head(a_parts)) THEN "Greater"
    ELSE zip_cmp(Tail(a_parts), Tail(b_parts))

domain_cmp(a, b) ==
    LET order == zip_cmp(rsplit(a), rsplit(b))
    IN  IF order # "Equal" THEN Ok(order)
        ELSE IF a # b THEN PANIC
        ELSE Ok("Equal")

\* sort_by on a short slice: each element is inserted into the sorted prefix
\* before it, moving left while it is less than its neighbour
RECURSIVE insert_tail(_, _)
insert_tail(sorted, x) ==
    IF sorted = <<>> THEN Ok(<<x>>)
    ELSE LET order == domain_cmp(x, sorted[Len(sorted)])
         IN  IF order = PANIC THEN PANIC
             ELSE IF order.v # "Less" THEN Ok(Append(sorted, x))
             ELSE LET front == insert_tail(SubSeq(sorted, 1, Len(sorted) - 1), x)
                  IN  IF front = PANIC THEN PANIC
                      ELSE Ok(Append(front.v, sorted[Len(sorted)]))

RECURSIVE sort_by(_, _)
sort_by(sorted, rest) ==
    IF rest = <<>> THEN Ok(sorted)
    ELSE LET next == insert_tail(sorted, Head(rest))
         IN  IF next = PANIC THEN PANIC ELSE sort_by(next.v, Tail(rest))

reverse(v) == [i \in DOMAIN v |-> v[Len(v) + 1 - i]]

sort(domains) ==
    LET sorted == sort_by(<<>>, domains)
    IN  IF sorted = PANIC THEN PANIC ELSE Ok(reverse(sorted.v))

MaxSortDomLen == 3
MaxListLen == 2
SortBytes == {"a", "b", "."}

InitSort ==
    /\ NotStarted
    /\ overflow_checks = FALSE
    /\ arg \in SeqsUpTo(SeqsUpTo(SortBytes, MaxSortDomLen), MaxListLen)
    /\ ret = NONE

CallSort ==
    /\ ret = NONE
    /\ ret' = sort(arg)
    /\ UNCHANGED <<main_vars, overflow_checks, arg>>

SpecSort == InitSort /\ [][CallSort]_vars

\* how often a domain occurs in a list
occurrences(v, x) == Cardinality({i \in DOMAIN v : v[i] = x})

\* C36: for every list of domains, lists that hold a domain together with
\* one of its subdomains included, sort returns without a panic and leaves a
\* permutation of the list in which no domain is below its successor in the
\* comparison of the segments from the last one backwards.
C36_SortNeverPanics ==
    ret # NONE =>
        /\ ret.tag = "Ok"
        /\ Len(ret.v) = Len(arg)
        /\ \A i \in DOMAIN arg : occurrences(ret.v, arg[i]) = occurrences(arg, arg[i])
        /\ \A i \in 1..(Len(ret.v) - 1) :
               zip_cmp(rsplit(ret.v[i]), rsplit(ret.v[i + 1])) # "Less"

----------------------------------------------------------------------------
(* belvi_frontend: find_cert. arg holds the index, the log list, the cache
   and the requested hash; ret is what the last call returned. The requested
   id is taken to be the 32 hex digits of a 16-byte hash. *)

\* the logs in the order of the log list
FindLogList == <<<<1, 0, 0, 0, 5>>, <<2, 0, 0, 0, 5>>, <<1, 0, 0, 0, 6>>>>
FindLogs == {FindLogList[i] : i \in DOMAIN FindLogList}

\* the certificate of the entry idx of a log: the first two logs hold the
\* same certificates at the same indexes, the third holds them swapped
FindLogSize == 2
cert_at(id, idx) == <<"der", ((idx + id[5]) % 2) + 1>>
Positions == FindLogs \X (0..(FindLogSize - 1))
LeafHashes == {db(cert_at(p[1], p[2])) : p \in Positions}

\* the rows of log_entries after the entries at the scanned positions were
\* stored, as SELECT log_id, idx ... WHERE leaf_hash = ? sees them
index_rows(scanned) ==
    {[leaf_hash |-> db(cert_at(p[1], p[2])), log_id |-> num(p[1]), idx |-> p[2]]
        : p \in scanned}

\* readable logs of the list whose num() is the log_id of a wanted row
matching_logs(wanted_logs, readable) ==
    LET matches(list_log) ==
            /\ list_log \in readable
            /\ \E wanted_log \in wanted_logs : num(list_log) = wanted_log.log_id
    IN  SelectSeq(FindLogList, matches)

MaxScanned == 2
MaxCalls == 2

InitFindCert ==
    /\ NotStarted
    /\ overflow_checks = FALSE
    /\ \E scanned \in SUBSET Positions, readable \in SUBSET FindLogs,
          answering \in SUBSET FindLogs, h \in LeafHashes :
          /\ Cardinality(scanned) <= MaxScanned
          /\ arg = [scanned |-> scanned, readable |-> readable,
                    answering |-> answering, h |-> h,
                    cache |-> [k \in LeafHashes |-> NONE],
                    put |-> NONE, last |-> "none", calls |-> 0]
    /\ ret = NONE

\* find_cert(state, h); a log of answering answers get-entries with the one
\* entry asked for, any other log with an error; the SET sent by new_cert
\* may not reach the cache
FindCert ==
    /\ arg.calls < MaxCalls
    /\ LET maybe_cert == arg.cache[arg.h]
           wanted_logs == {r \in index_rows(arg.scanned) : r.leaf_hash = arg.h}
           matching == matching_logs(wanted_logs, arg.readable)
           called(last) == [arg EXCEPT !.calls = @ + 1, !.last = last,
                                       !.put = NONE]
       IN  IF maybe_cert # NONE
           THEN ret' = Ok(maybe_cert.v) /\ arg' = called("hit")
           ELSE IF wanted_logs = {}
           THEN ret' = Err("Certificate not found") /\ arg' = called("miss")
           ELSE IF matching = <<>>
           THEN /\ ret' = Err("Found no current logs with cert")
                /\ arg' = called("miss")
           ELSE IF matching[1] \notin arg.answering
           THEN /\ ret' = Err("Error fetching cert from log")
                /\ arg' = called("miss")
           ELSE \E wanted_log \in wanted_logs, delivered \in BOOLEAN :
                   LET cert == cert_at(matching[1], wanted_log.idx)
                   IN  /\ wanted_log.log_id = num(matching[1])
                       /\ ret' = Ok(cert)
                       /\ arg' = [called("miss") EXCEPT
                              !.put = Some(<<db(cert), cert>>),
                              !.cache = IF delivered
                                        THEN [@ EXCEPT ![db(cert)] = Some(cert)]
                                        ELSE @]
    /\ UNCHANGED <<main_vars, overflow_checks>>

SpecFindCert == InitFindCert /\ [][FindCert]_vars

\* C37: when find_cert succeeds for the hash h, the bytes c it returns have
\* db(c) = h, from the cache or from a log; and after a cache miss for a hash
\* with a log_entries row in a readable log that answers with exactly one
\* entry, the certificate is returned and written to the cache under db(c).
C37_FindCertReturnsRequested ==
    /\ ret.tag = "Ok" => db(ret.v) = arg.h
    /\ (/\ arg.last = "miss"
        /\ \E p \in arg.scanned : /\ db(cert_at(p[1], p[2])) = arg.h
                                  /\ p[1] \in arg.readable
                                  /\ p[1] \in arg.answering)
          => /\ ret.tag = "Ok"
             /\ db(ret.v) = arg.h
             /\ arg.put = Some(<<arg.h, ret.v>>)

====
